---- MODULE Spec2Model ----
(***************************************************************************)
(* A model of the news service: the cache layer's stampede-protected       *)
(* read-through fill (internal/cache/redis.go), the strategy selector and  *)
(* the query pipeline (internal/services/news), the HTTP handlers and the  *)
(* article repository.                                                     *)
(***************************************************************************)
EXTENDS Integers, Sequences, FiniteSets, TLC

VARIABLES
    \* ---- cache layer (RedisCache.GetOrSet) ----
    cacheVal,    \* the value stored under the cache key, or NoVal
    lock,        \* the caller whose SetNX created lock:<key>, or 0 when the key is absent
    held,        \* held[c]: c created the lock, has not deleted it, and its 10s TTL has not run out
    pc,          \* pc[c]: where caller c stands inside GetOrSet
    polls,       \* polls[c]: the loop counter i of the wait loop
    value,       \* value[c]: the local `value` returned by fn()
    ret,         \* ret[c]: what GetOrSet returned to c
    lockFailed,  \* lockFailed[c]: c's SetNX answered acquired = false
    ranFn,       \* ranFn[c]: c called fn()
    fnRuns,      \* the number of times fn() was called, all callers together
    \* ---- one request through the handlers and NewsService.Query ----
    qpc,             \* where the request stands
    via,             \* the endpoint the request came in by
    req,             \* the QueryRequest
    extraction,      \* the classifier's Extraction
    strategy,        \* the strategy determineStrategy returned
    store,           \* the repository: its mode and the articles and indexes it holds
    storeCall,       \* the call Query made to the repository, Nil before it
    redisOps,        \* the Redis commands issued while the request is served
    articles,        \* the local `articles` of Query
    pending,         \* the indexes whose Summarize goroutine has not delivered yet
    summaries,       \* the local `summaries` of enrichArticles
    summarizeCalls,  \* the number of Summarize calls made
    delivered,       \* the results sent on the channel `results`, each with its article's ID
    ranked,          \* the slice rankArticles returned, Nil before it
    response,        \* the articles of the response
    httpStatus,      \* the status of the response, 0 before it
    httpBody,        \* the text http.Error wrote as the body of the response, empty without one
    \* ---- the trending scorer (TrendingScorer) ----
    now,         \* the wall clock, in minutes
    userEvents,  \* the rows of the table user_events
    zsets,       \* zsets[k]: the members and scores of the Redis sorted set under key k
    zttl,        \* zttl[k]: the key k carries a TTL
    meta,        \* the value under news:trending:global:meta, Nil while absent
    loop,        \* where the goroutine of Start stands
    tick,        \* a tick is waiting in the ticker's channel (capacity 1)
    tickerOn,    \* the ticker is running
    doneClosed,  \* Stop has closed the channel `done`
    ctxDone,     \* the context given to Start has been cancelled
    writer,      \* writer[w]: the locals of the computation w is executing
    running,     \* the number of computeAllTiles executions of the loop in progress
    lastCycle,   \* the ids of the events the latest cycle fetched and the sets it wrote, Nil
                 \* once an event has been recorded after it
    lateCycles,  \* the cycles the loop began after Stop and after the cancellation (history)
    \* ---- the rate limiter (SimpleRateLimiter) ----
    rlNow,       \* the wall clock the rate limiter reads, in seconds
    clients,     \* clients[ip]: the clientLimit the map rl.clients points to for ip, or Nil
    handler      \* handler[h]: the locals of the request goroutine h inside RateLimit

cacheVars == <<cacheVal, lock, held, pc, polls, value, ret, lockFailed, ranFn, fnRuns>>

queryVars == <<qpc, via, req, extraction, strategy, store, storeCall, redisOps, articles,
               pending, summaries, summarizeCalls, delivered, ranked, response, httpStatus,
               httpBody>>

trendVars == <<now, userEvents, zsets, zttl, meta, loop, tick, tickerOn, doneClosed, ctxDone,
               writer, running, lastCycle, lateCycles>>

limitVars == <<rlNow, clients, handler>>

vars == <<cacheVars, queryVars, trendVars, limitVars>>

-----------------------------------------------------------------------------
(* Bounds and program constants *)

NumCallers == 2

MaxPolls == 50

\* The callers of GetOrSet on one key.
Callers == 1..NumCallers

\* The callers plus one more that joins the race.
Procs == 1..(NumCallers + 1)

Values == {"v1", "v2"}

NoVal == "absent"

NoRet == "none"

ErrTimeout == "timeout waiting for cache update"

ErrLock == "failed to acquire lock"

ErrGenerate == "failed to generate value"

ErrStore == "failed to store value in cache"

-----------------------------------------------------------------------------
(* Strings are sequences of one-character strings, so that strings.ToLower *)
(* and strings.Contains are computed and not assumed.                      *)

UpperChars == <<"A", "B", "C", "D", "E", "F", "G", "H", "I", "J", "K", "L", "M", "N", "O", "P", "Q", "R", "S", "T", "U", "V", "W", "X", "Y", "Z">>

LowerChars == <<"a", "b", "c", "d", "e", "f", "g", "h", "i", "j", "k", "l", "m", "n", "o", "p", "q", "r", "s", "t", "u", "v", "w", "x", "y", "z">>

LowerChar(ch) ==
    IF \E i \in 1..Len(UpperChars) : UpperChars[i] = ch
      THEN LowerChars[CHOOSE i \in 1..Len(UpperChars) : UpperChars[i] = ch]
      ELSE ch

\* strings.ToLower
ToLower(s) == [i \in 1..Len(s) |-> LowerChar(s[i])]

\* strings.Contains
Contains(s, sub) == \E i \in 0..(Len(s) - Len(sub)) : SubSeq(s, i + 1, i + Len(sub)) = sub

\* A Go pointer or optional value: <<>> is nil, <<v>> points to v.
Nil == <<>>

Ptr(v) == <<v>>


-----------------------------------------------------------------------------
(* Numbers in requests. A float64 is held in thousandths (0.9 is 900,      *)
(* 37.775 degrees is 37775, 2 km is 2000), which is exact for the texts    *)
(* with at most three decimals that the requests below carry.              *)

Digits == <<"0", "1", "2", "3", "4", "5", "6", "7", "8", "9">>

IsDigit(ch) == \E i \in 1..Len(Digits) : Digits[i] = ch

DigitVal(ch) == (CHOOSE i \in 1..Len(Digits) : Digits[i] = ch) - 1

AllDigits(s) == \A i \in 1..Len(s) : IsDigit(s[i])

\* The value of a run of digits.
RECURSIVE DigitsVal(_)
DigitsVal(s) ==
    IF s = <<>> THEN 0
    ELSE 10 * DigitsVal(SubSeq(s, 1, Len(s) - 1)) + DigitVal(s[Len(s)])

Unsigned(s) == IF s # <<>> /\ s[1] \in {"+", "-"} THEN Tail(s) ELSE s

Sign(s) == IF s # <<>> /\ s[1] = "-" THEN -1 ELSE 1

\* strconv.Atoi: an optional sign and one or more digits; Nil stands for err != nil.
Atoi(s) ==
    LET d == Unsigned(s)
    IN  IF d # <<>> /\ AllDigits(d) THEN Ptr(Sign(s) * DigitsVal(d)) ELSE Nil

\* The fraction digits of a decimal text as thousandths.
Thousandths(f) ==
    LET padded == SubSeq(f \o <<"0", "0", "0">>, 1, 3) IN DigitsVal(padded)

\* strconv.ParseFloat on a decimal text: sign, digits, and a fraction of at most three
\* digits; Nil stands for err != nil.
ParseFloat(s) ==
    LET d == Unsigned(s)
        dots == {i \in 1..Len(d) : d[i] = "."}
    IN  IF dots = {}
          THEN IF d # <<>> /\ AllDigits(d) THEN Ptr(Sign(s) * 1000 * DigitsVal(d)) ELSE Nil
          ELSE LET dot == CHOOSE i \in dots : TRUE
                   whole == SubSeq(d, 1, dot - 1)
                   frac == SubSeq(d, dot + 1, Len(d))
               IN  IF /\ Cardinality(dots) = 1
                      /\ AllDigits(whole) /\ AllDigits(frac)
                      /\ Len(whole) + Len(frac) > 0
                      /\ Len(frac) <= 3
                     THEN Ptr(Sign(s) * (1000 * DigitsVal(whole) + Thousandths(frac)))
                     ELSE Nil

\* A score in thousandths as ten-millionths, the unit of a threshold.
Fine(x) == x * 10000

\* The fraction digits of a decimal text as ten-millionths.
TenMillionths(f) ==
    LET padded == SubSeq(f \o <<"0", "0", "0", "0", "0", "0", "0">>, 1, 7) IN DigitsVal(padded)

\* strconv.ParseFloat on the text of a threshold (client.go:341): digits and a fraction of
\* at most seven digits, in ten-millionths; Nil stands for err != nil.
ParseFloatFine(s) ==
    LET dots == {i \in 1..Len(s) : s[i] = "."}
    IN  IF dots = {}
          THEN IF s # <<>> /\ AllDigits(s) THEN Ptr(Fine(1000) * DigitsVal(s)) ELSE Nil
          ELSE LET dot == CHOOSE i \in dots : TRUE
                   whole == SubSeq(s, 1, dot - 1)
                   frac == SubSeq(s, dot + 1, Len(s))
               IN  IF /\ Cardinality(dots) = 1
                      /\ AllDigits(whole) /\ AllDigits(frac)
                      /\ Len(whole) + Len(frac) > 0
                      /\ Len(frac) <= 7
                     THEN Ptr(Fine(1000) * DigitsVal(whole) + TenMillionths(frac))
                     ELSE Nil

\* redis.go:118-119: fmt.Sprintf("%f", x) keeps six decimals, rounding the seventh; the
\* value Redis reads back from the text, in ten-millionths (x >= 0).
FormatF(x) == ((x + 5) \div 10) * 10

\* The end of the longest run of digits of s that starts at i (i - 1 when there is none).
RECURSIVE DigitsEnd(_, _)
DigitsEnd(s, i) == IF i <= Len(s) /\ IsDigit(s[i]) THEN DigitsEnd(s, i + 1) ELSE i - 1

\* client.go:338-340: the leftmost match of (\d+\.?\d*) in s, Nil when there is none.
FirstNumber(s) ==
    LET starts == {i \in 1..Len(s) : IsDigit(s[i])}
    IN  IF starts = {} THEN Nil
        ELSE LET from == CHOOSE i \in starts : \A j \in starts : i <= j
                 intEnd == DigitsEnd(s, from)
                 to == IF intEnd < Len(s) /\ s[intEnd + 1] = "."
                         THEN DigitsEnd(s, intEnd + 2) ELSE intEnd
             IN  Ptr(SubSeq(s, from, to))

-----------------------------------------------------------------------------
(* NewsService.determineStrategy and its helpers *)

\* client.go:257 and 516
KnownSources == <<<<"n", "e", "w", " ", "y", "o", "r", "k", " ", "t", "i", "m", "e", "s">>, <<"r", "e", "u", "t", "e", "r", "s">>, <<"b", "b", "c">>, <<"c", "n", "n">>, <<"d", "w">>, <<"t", "e", "c", "h", "n", "e", "w", "s">>, <<"g", "l", "o", "b", "a", "l", "n", "e", "w", "s">>, <<"f", "i", "n", "a", "n", "c", "e", "d", "a", "i", "l", "y">>>>

\* client.go:270 and 506
KnownCategories == <<<<"t", "e", "c", "h", "n", "o", "l", "o", "g", "y">>, <<"b", "u", "s", "i", "n", "e", "s", "s">>, <<"s", "p", "o", "r", "t", "s">>, <<"h", "e", "a", "l", "t", "h">>, <<"s", "c", "i", "e", "n", "c", "e">>, <<"e", "n", "v", "i", "r", "o", "n", "m", "e", "n", "t">>, <<"p", "o", "l", "i", "t", "i", "c", "s">>, <<"e", "n", "t", "e", "r", "t", "a", "i", "n", "m", "e", "n", "t">>>>

L_category == <<"c", "a", "t", "e", "g", "o", "r", "y">>

L_topic == <<"t", "o", "p", "i", "c">>

L_source == <<"s", "o", "u", "r", "c", "e">>

L_publisher == <<"p", "u", "b", "l", "i", "s", "h", "e", "r">>

L_score == <<"s", "c", "o", "r", "e">>

L_relevance == <<"r", "e", "l", "e", "v", "a", "n", "c", "e">>

L_nearby == <<"n", "e", "a", "r", "b", "y">>

L_location == <<"l", "o", "c", "a", "t", "i", "o", "n">>

L_local == <<"l", "o", "c", "a", "l">>

L_search == <<"s", "e", "a", "r", "c", "h">>

L_query == <<"q", "u", "e", "r", "y">>


\* The loop of getBestIntent comparing with >=: the last of the intents that share the
\* highest confidence wins.
RECURSIVE BestIntentFromLastWins(_, _, _)
BestIntentFromLastWins(intents, i, best) ==
    IF i > Len(intents) THEN best
    ELSE IF best = 0 \/ intents[i].Confidence >= intents[best].Confidence
      THEN BestIntentFromLastWins(intents, i + 1, i)
      ELSE BestIntentFromLastWins(intents, i + 1, best)

\* client.go:231-235: the loop of getBestIntent; best = 0 stands for the nil pointer.
RECURSIVE BestIntentFrom(_, _, _)
BestIntentFrom(intents, i, best) ==
    IF i > Len(intents) THEN best
    ELSE IF best = 0 \/ intents[i].Confidence > intents[best].Confidence
      THEN BestIntentFrom(intents, i + 1, i)
      ELSE BestIntentFrom(intents, i + 1, best)

\* client.go:225-241
getBestIntent(ex) ==
    IF Len(ex.Intent) = 0 THEN L_search
    ELSE LET best == BestIntentFrom(ex.Intent, 1, 0)
         IN  IF best # 0 THEN ex.Intent[best].Type ELSE L_search

\* client.go:244-253
getAllEntities(ex) ==
    ex.People \o ex.Organizations \o ex.Locations
        \o ex.Concepts \o ex.Categories \o ex.SourceNames

\* client.go:256-266
hasSourceEntities(entities) ==
    \E i \in 1..Len(entities) : \E j \in 1..Len(KnownSources) :
        Contains(ToLower(entities[i]), KnownSources[j])

\* client.go:269-279
hasCategoryEntities(entities) ==
    \E i \in 1..Len(entities) : \E j \in 1..Len(KnownCategories) :
        Contains(ToLower(entities[i]), KnownCategories[j])

\* The default branch with the two tests in the other order.
strategyFromEntitiesCategoryFirst(ex) ==
    LET allEntities == getAllEntities(ex)
    IN  IF hasCategoryEntities(allEntities) THEN "category"
        ELSE IF hasSourceEntities(allEntities) THEN "source"
        ELSE "search"

\* client.go:211-221: the default branch of the switch.
strategyFromEntities(ex) ==
    LET allEntities == getAllEntities(ex)
    IN  IF hasSourceEntities(allEntities) THEN "source"
        ELSE IF hasCategoryEntities(allEntities) THEN "category"
        ELSE "search"

\* client.go:198-210: the switch on the lower-cased best intent; "" stands for default.
strategyFromIntent(label) ==
    CASE label \in {L_category, L_topic} -> "category"
      [] label \in {L_source, L_publisher} -> "source"
      [] label \in {L_score, L_relevance} -> "score"
      [] label \in {L_nearby, L_location, L_local} -> "nearby"
      [] label \in {L_search, L_query} -> "search"
      [] OTHER -> ""

\* determineStrategy with the coordinates looked at after the intent label.
determineStrategyIntentFirst(ex, rq) ==
    LET bestIntent == getBestIntent(ex)
        byIntent == strategyFromIntent(ToLower(bestIntent))
    IN  IF byIntent # "" THEN byIntent
        ELSE IF rq.Lat # Nil /\ rq.Lon # Nil THEN "nearby"
        ELSE strategyFromEntities(ex)

\* client.go:192-222
determineStrategy(ex, rq) ==
    IF rq.Lat # Nil /\ rq.Lon # Nil THEN "nearby"
    ELSE LET bestIntent == getBestIntent(ex)
             byIntent == strategyFromIntent(ToLower(bestIntent))
         IN  IF byIntent # "" THEN byIntent ELSE strategyFromEntities(ex)


-----------------------------------------------------------------------------
(* The inputs the strategy selector is exercised on *)

MaxIntents == 2

\* Intent labels as a classifier may spell them, and one label that is no synonym.
IntentLabels == {<<"c", "a", "t", "e", "g", "o", "r", "y">>, <<"T", "o", "p", "i", "c">>, <<"s", "o", "u", "r", "c", "e">>, <<"P", "U", "B", "L", "I", "S", "H", "E", "R">>, <<"S", "c", "o", "r", "e">>, <<"r", "e", "l", "e", "v", "a", "n", "c", "e">>, <<"n", "e", "a", "r", "b", "y">>, <<"L", "o", "c", "a", "t", "i", "o", "n">>, <<"L", "O", "C", "A", "L">>, <<"s", "e", "a", "r", "c", "h">>, <<"Q", "u", "e", "r", "y">>, <<"t", "r", "e", "n", "d", "i", "n", "g">>}

\* Confidences in tenths.
Confidences == {5, 9}

Intents == [Type : IntentLabels, Confidence : Confidences]

RECURSIVE SeqsUpTo(_, _)
SeqsUpTo(S, n) ==
    IF n = 0 THEN {<<>>}
    ELSE LET shorter == SeqsUpTo(S, n - 1)
         IN  shorter \cup {Append(s, x) : s \in {t \in shorter : Len(t) = n - 1}, x \in S}

\* What the entity lists hold: nothing, a source name among the organisations, a category
\* name among the concepts, both, or names that are neither.
EntityLists ==
    {[Organizations |-> <<>>, Concepts |-> <<>>, SourceNames |-> <<>>, Categories |-> <<>>],
     [Organizations |-> <<<<"R", "e", "u", "t", "e", "r", "s">>>>, Concepts |-> <<>>, SourceNames |-> <<>>, Categories |-> <<>>],
     [Organizations |-> <<>>, Concepts |-> <<<<"S", "p", "o", "r", "t", "s", " ", "S", "c", "i", "e", "n", "c", "e">>>>, SourceNames |-> <<>>, Categories |-> <<>>],
     [Organizations |-> <<>>, Concepts |-> <<>>, SourceNames |-> <<<<"B", "B", "C", " ", "N", "e", "w", "s">>>>, Categories |-> <<<<"H", "e", "a", "l", "t", "h">>>>],
     [Organizations |-> <<>>, Concepts |-> <<>>, SourceNames |-> <<<<"G", "a", "z", "e", "t", "t", "e">>>>, Categories |-> <<<<"T", "e", "c", "h">>>>]}

StrategyExtractions ==
    {[People |-> <<>>, Organizations |-> e.Organizations, Locations |-> <<>>,
      Concepts |-> e.Concepts, Intent |-> intent, RadiusKm |-> Nil,
      SourceNames |-> e.SourceNames, Categories |-> e.Categories] :
        e \in EntityLists, intent \in SeqsUpTo(Intents, MaxIntents)}

\* Requests with no coordinate, with lat alone, and with both (the selector does not read
\* their values).
StrategyRequests ==
    {[Query |-> <<>>, Lat |-> c[1], Lon |-> c[2], Radius |-> Nil, Limit |-> 5] :
        c \in {<<Nil, Nil>>, <<Ptr(37775), Nil>>, <<Ptr(37775), Ptr(0 - 122419)>>}}

-----------------------------------------------------------------------------
(* The article repository (package repo): CreateArticle and the five       *)
(* retrieval operations, over Redis when it is reachable and over the      *)
(* in-memory map otherwise.                                                *)
(* Scores, degrees and kilometres are in thousandths; dates are day         *)
(* numbers.                                                                *)

ArticleIds == <<"a1", "a2", "a3">>

IdSet == {ArticleIds[i] : i \in 1..Len(ArticleIds)}

\* The order of a member among the members of a sorted set with equal scores.
IdRank(id) == CHOOSE i \in 1..Len(ArticleIds) : ArticleIds[i] = id

\* The articles the sample data is drawn from (all on the meridian of the requests).
ArticlePool ==
    {[ID |-> "a1", Title |-> <<"a", "i", " ", "c", "h", "i", "p">>, Description |-> Ptr(<<"t", "e", "c", "h">>), PublicationDate |-> 1,
      SourceName |-> <<"B", "B", "C">>, Category |-> <<<<"T", "e", "c", "h", "n", "o", "l", "o", "g", "y">>>>, RelevanceScore |-> 900,
      Latitude |-> Ptr(37800), Longitude |-> Ptr(-122419)],
     [ID |-> "a2", Title |-> <<"T", "e", "c", "h", " ", "A", "I">>, Description |-> Nil, PublicationDate |-> 3,
      SourceName |-> <<"b", "b", "c">>, Category |-> <<<<"B", "u", "s", "i", "n", "e", "s", "s">>, <<"t", "e", "c", "h", "n", "o", "l", "o", "g", "y">>>>, RelevanceScore |-> 850,
      Latitude |-> Ptr(37785), Longitude |-> Ptr(-122419)],
     [ID |-> "a3", Title |-> <<"l", "a", "w">>, Description |-> Ptr(<<"a", "i">>), PublicationDate |-> 2,
      SourceName |-> <<"R", "e", "u", "t", "e", "r", "s">>, Category |-> <<<<"P", "o", "l", "i", "t", "i", "c", "s">>>>, RelevanceScore |-> 950,
      Latitude |-> Nil, Longitude |-> Nil]}

EmptyStore(mode) ==
    [mode |-> mode,
     articles |-> [id \in IdSet |-> Nil],
     all |-> {},
     byCategory |-> {},
     bySource |-> {},
     byScore |-> {}]

\* part_004:179-234
CreateArticle(st, article) ==
    IF st.mode = "redis"
      THEN [st EXCEPT
              !.articles[article.ID] = Ptr(article),
              !.all = st.all \cup {article.ID},
              !.byCategory = st.byCategory \cup {<<ToLower(article.Category[i]), article.ID>> :
                                                    i \in 1..Len(article.Category)},
              !.bySource = st.bySource \cup {<<ToLower(article.SourceName), article.ID>>},
              !.byScore = {z \in st.byScore : z[1] # article.ID}
                              \cup {<<article.ID, article.RelevanceScore>>}]
      ELSE [st EXCEPT !.articles[article.ID] = Ptr(article)]

RECURSIVE CreateAll(_, _)
CreateAll(st, todo) ==
    IF todo = {} THEN st
    ELSE LET a == CHOOSE x \in todo : TRUE
         IN  CreateAll(CreateArticle(st, a), todo \ {a})

\* The orders in which a Go map or a Redis set may hand out its members.
Orders == {o \in [1..Len(ArticleIds) -> IdSet] : \A i, j \in 1..Len(ArticleIds) : o[i] = o[j] => i = j}

Min(a, b) == IF a < b THEN a ELSE b

Abs(x) == IF x < 0 THEN -x ELSE x

\* The loops `append; if len(results) >= limit { break }` called with limit >= 1.
TakeFirst(seq, limit) == SubSeq(seq, 1, Min(Len(seq), limit))

\* part_004:237-258: the ids of `order` that GetArticleByID finds.
StoredIn(st, order, members) ==
    SelectSeq(order, LAMBDA id : id \in members /\ st.articles[id] # Nil)

ArticleOf(st, id) == st.articles[id][1]

\* part_004:284-289
CategoryMatches(article, name) ==
    \E i \in 1..Len(article.Category) :
        Contains(ToLower(article.Category[i]), ToLower(name))

\* part_004:260-298
GetArticlesByCategory(st, name, limit, order) ==
    IF st.mode = "redis"
      THEN LET ids == {z[2] : z \in {y \in st.byCategory : y[1] = ToLower(name)}}
           IN  TakeFirst(StoredIn(st, order, ids), limit)
      ELSE TakeFirst(SelectSeq(StoredIn(st, order, IdSet),
                               LAMBDA id : CategoryMatches(ArticleOf(st, id), name)), limit)

\* part_004:300-335
GetArticlesBySource(st, name, limit, order) ==
    IF st.mode = "redis"
      THEN LET ids == {z[2] : z \in {y \in st.bySource : y[1] = ToLower(name)}}
           IN  TakeFirst(StoredIn(st, order, ids), limit)
      ELSE TakeFirst(SelectSeq(StoredIn(st, order, IdSet),
                               LAMBDA id : Contains(ToLower(ArticleOf(st, id).SourceName),
                                                    ToLower(name))), limit)

\* redis.go:116-124 (ZRANGEBYSCORE key min max LIMIT 0 count): the members with
\* min <= score <= max by ascending score, at most `count` of them.
ZRangeByScore(zset, min, max, count) ==
    LET inRange == {z \in zset : min <= z[2] /\ z[2] <= max}
        Before(x, y) == x[2] < y[2] \/ (x[2] = y[2] /\ IdRank(x[1]) < IdRank(y[1]))
        sorted == CHOOSE s \in [1..Cardinality(inRange) -> inRange] :
                      \A i, j \in 1..Cardinality(inRange) : i < j => Before(s[i], s[j])
    IN  TakeFirst([i \in 1..Cardinality(inRange) |-> sorted[i][1]], count)

\* part_004:337-371
GetArticlesByScore(st, min, limit, order) ==
    IF st.mode = "redis"
      THEN LET zset == {<<z[1], Fine(z[2])>> : z \in st.byScore}
               articleIDs == ZRangeByScore(zset, FormatF(min), FormatF(Fine(1000)), limit)
           IN  TakeFirst(StoredIn(st, articleIDs, IdSet), limit)
      ELSE TakeFirst(SelectSeq(StoredIn(st, order, IdSet),
                               LAMBDA id : Fine(ArticleOf(st, id).RelevanceScore) >= min), limit)

\* part_004:385-389 and 424-428
TitleMatch(article, query) == Contains(ToLower(article.Title), ToLower(query))

DescMatch(article, query) ==
    article.Description # Nil /\ Contains(ToLower(article.Description[1]), ToLower(query))

\* part_004:392-400 and 431-439: 0.7 for the title, 0.3 for the description, and
\* 0.2 * RelevanceScore.
SearchScoreOf(article, query) ==
    (IF TitleMatch(article, query) THEN 700 ELSE 0)
        + (IF DescMatch(article, query) THEN 300 ELSE 0)
        + (article.RelevanceScore * 2) \div 10

\* part_004:373-455 (both branches walk the stored articles alike)
SearchArticles(st, query, limit, order) ==
    LET walked == IF st.mode = "redis" THEN StoredIn(st, order, st.all)
                  ELSE StoredIn(st, order, IdSet)
    IN  TakeFirst(SelectSeq(walked, LAMBDA id :
                      TitleMatch(ArticleOf(st, id), query) \/ DescMatch(ArticleOf(st, id), query)),
                  limit)

\* part_004:571-585, for two points of one meridian, where the haversine distance is
\* R * |lat2 - lat1| * pi / 180 = 6371 km * 0.0174533 * |lat2 - lat1|, that is 0.111 km
\* for each thousandth of a degree.
haversineDistance(lat1, lon1, lat2, lon2) == 111 * Abs(lat2 - lat1)

HasCoordinates(article) == article.Latitude # Nil /\ article.Longitude # Nil

\* part_004:483-489: the distance in thousandths of a km is the row's DistanceMeters.
DistanceOf(article, lat, lon) ==
    haversineDistance(lat, lon, article.Latitude[1], article.Longitude[1])

\* part_004:499-502: sort.Slice by DistanceMeters; any order without an inversion.
SortedByDistance(ids, st, lat, lon) ==
    {p \in [1..Len(ids) -> {ids[i] : i \in 1..Len(ids)}] :
        /\ \A i, j \in 1..Len(ids) : p[i] = p[j] => i = j
        /\ \A i, j \in 1..Len(ids) :
              i < j => DistanceOf(ArticleOf(st, p[i]), lat, lon)
                          <= DistanceOf(ArticleOf(st, p[j]), lat, lon)}

\* part_004:457-497: the rows collected before the sort.
NearbyCollected(st, lat, lon, radius, limit, order) ==
    LET walked == IF st.mode = "redis" THEN StoredIn(st, order, st.all)
                  ELSE StoredIn(st, order, IdSet)
    IN  TakeFirst(SelectSeq(walked, LAMBDA id :
                      /\ HasCoordinates(ArticleOf(st, id))
                      /\ DistanceOf(ArticleOf(st, id), lat, lon) <= radius),
                  limit)

\* part_004:457-505: the results GetNearbyArticles may return.
GetNearbyArticles(st, lat, lon, radius, limit, order) ==
    SortedByDistance(NearbyCollected(st, lat, lon, radius, limit, order), st, lat, lon)

-----------------------------------------------------------------------------
(* NewsService: the retrieval operations, the Enricher and the Ranker *)

DefaultLimit == 5

MaxLimit == 50

\* client.go:332, 0.8
DefaultMinScore == 800

\* client.go:402, 10 km
DefaultRadius == 10000

\* client.go:393-394: San Francisco, 37.7749 and -122.4194 to the thousandth of a degree
DefaultLat == 37775

DefaultLon == 0 - 122419

\* part_000:154, 50 km
TrendingRadius == 50000

\* client.go:505-513
isCategory(entity) ==
    \E j \in 1..Len(KnownCategories) : Contains(ToLower(entity), KnownCategories[j])

\* client.go:515-523
isSource(entity) ==
    \E j \in 1..Len(KnownSources) : Contains(ToLower(entity), KnownSources[j])

\* client.go:533-546
convertToDTO(article) ==
    [ID |-> article.ID, Title |-> article.Title, Description |-> article.Description,
     PublicationDate |-> article.PublicationDate, SourceName |-> article.SourceName,
     Category |-> article.Category, RelevanceScore |-> article.RelevanceScore,
     LLMSummary |-> Nil, Latitude |-> article.Latitude, Longitude |-> article.Longitude,
     DistanceMeters |-> Nil, SearchScore |-> Nil]

\* client.go:525-531
convertToDTOs(st, ids) == [i \in 1..Len(ids) |-> convertToDTO(ArticleOf(st, ids[i]))]

\* The least element of a non-empty set of indexes.
First(hits) == CHOOSE i \in hits : \A j \in hits : i <= j

\* client.go:284-290
CategoryOf(ex) ==
    LET hits == {i \in 1..Len(ex.Categories) : isCategory(ex.Categories[i])}
    IN  IF hits = {} THEN <<"T", "e", "c", "h", "n", "o", "l", "o", "g", "y">> ELSE ex.Categories[First(hits)]

\* client.go:308-314
SourceOf(ex) ==
    LET hits == {i \in 1..Len(ex.SourceNames) : isSource(ex.SourceNames[i])}
    IN  IF hits = {} THEN <<"T", "e", "c", "h", "N", "e", "w", "s">> ELSE ex.SourceNames[First(hits)]

\* client.go:332-345
MinScoreOf(rq) ==
    LET queryLower == ToLower(rq.Query)
        matches == FirstNumber(queryLower)
        score == IF matches = Nil THEN Nil ELSE ParseFloatFine(matches[1])
    IN  IF /\ Contains(queryLower, <<"a", "b", "o", "v", "e">>) \/ Contains(queryLower, <<"t", "h", "r", "e", "s", "h", "o", "l", "d">>)
           /\ score # Nil
           /\ score[1] >= 0 /\ score[1] <= Fine(1000)
          THEN score[1] ELSE Fine(DefaultMinScore)

\* client.go:282-303
getArticlesByCategory(ex, rq, st, order) ==
    convertToDTOs(st, GetArticlesByCategory(st, CategoryOf(ex), rq.Limit, order))

\* client.go:305-327
getArticlesBySource(ex, rq, st, order) ==
    convertToDTOs(st, GetArticlesBySource(st, SourceOf(ex), rq.Limit, order))

\* client.go:330-358
getArticlesByScore(ex, rq, st, order) ==
    convertToDTOs(st, GetArticlesByScore(st, MinScoreOf(rq), rq.Limit, order))

\* client.go:361-383
searchArticles(ex, rq, st, order) ==
    LET ids == SearchArticles(st, rq.Query, rq.Limit, order)
    IN  [i \in 1..Len(ids) |->
            [convertToDTO(ArticleOf(st, ids[i])) EXCEPT
                !.SearchScore = Ptr(SearchScoreOf(ArticleOf(st, ids[i]), rq.Query))]]

\* client.go:388-400: no coordinates in the request and no location in the ex.
NearbyWithoutLocation(ex, rq) ==
    (rq.Lat = Nil \/ rq.Lon = Nil) /\ Len(ex.Locations) = 0

\* client.go:388-396: the coordinates the nearby search runs on.
NearbyLat(rq) == IF rq.Lat = Nil \/ rq.Lon = Nil THEN DefaultLat ELSE rq.Lat[1]

NearbyLon(rq) == IF rq.Lat = Nil \/ rq.Lon = Nil THEN DefaultLon ELSE rq.Lon[1]

\* client.go:402-405
NearbyRadius(rq) == IF rq.Radius # Nil THEN rq.Radius[1] ELSE DefaultRadius

\* client.go:386-427: the results the call may have when it does not fail.
getNearbyArticles(ex, rq, st, order) ==
    {[i \in 1..Len(ids) |->
        [convertToDTO(ArticleOf(st, ids[i])) EXCEPT
            !.DistanceMeters =
                Ptr(DistanceOf(ArticleOf(st, ids[i]), NearbyLat(rq), NearbyLon(rq)))]] :
        ids \in GetNearbyArticles(st, NearbyLat(rq), NearbyLon(rq), NearbyRadius(rq),
                                  rq.Limit, order)}

\* client.go:135-150: the switch of Query; the results the selected operation may have.
RetrievalResults(strat, ex, rq, st, order) ==
    CASE strat = "category" -> {getArticlesByCategory(ex, rq, st, order)}
      [] strat = "source" -> {getArticlesBySource(ex, rq, st, order)}
      [] strat = "score" -> {getArticlesByScore(ex, rq, st, order)}
      [] strat = "nearby" -> getNearbyArticles(ex, rq, st, order)
      [] OTHER -> {searchArticles(ex, rq, st, order)}

\* The call the selected operation makes to the repository.
StoreCallOf(strat, ex, rq) ==
    CASE strat = "category" ->
            [op |-> "GetArticlesByCategory", name |-> CategoryOf(ex), limit |-> rq.Limit]
      [] strat = "source" ->
            [op |-> "GetArticlesBySource", name |-> SourceOf(ex), limit |-> rq.Limit]
      [] strat = "score" ->
            [op |-> "GetArticlesByScore", name |-> <<>>, limit |-> rq.Limit]
      [] strat = "nearby" ->
            [op |-> "GetNearbyArticles", name |-> <<>>, limit |-> rq.Limit]
      [] OTHER ->
            [op |-> "SearchArticles", name |-> rq.Query, limit |-> rq.Limit]

\* keys.go:33-61: the prefix of the cache key of a strategy's results.
StrategyKeyPrefix(strat) ==
    CASE strat = "category" -> "cache:v1:category:"
      [] strat = "source" -> "cache:v1:source:"
      [] strat = "score" -> "cache:v1:score:"
      [] strat = "nearby" -> "cache:v1:nearby:"
      [] OTHER -> "cache:v1:search:"

\* The Redis commands the repository issues for a call (none without Redis): the read of
\* the index and the GET of each article taken from it.
RepoRedisOps(st, call, ids) ==
    IF st.mode # "redis" THEN <<>>
    ELSE LET index ==
                CASE call.op = "GetArticlesByCategory" ->
                        [cmd |-> "SMEMBERS", prefix |-> "articles:category:", arg |-> ToLower(call.name)]
                  [] call.op = "GetArticlesBySource" ->
                        [cmd |-> "SMEMBERS", prefix |-> "articles:source:", arg |-> ToLower(call.name)]
                  [] call.op = "GetArticlesByScore" ->
                        [cmd |-> "ZRANGEBYSCORE", prefix |-> "articles:by_score", arg |-> <<>>]
                  [] OTHER ->
                        [cmd |-> "SMEMBERS", prefix |-> "articles:all", arg |-> <<>>]
         IN  <<index>> \o [i \in 1..Len(ids) |-> [cmd |-> "GET", prefix |-> "article:", arg |-> <<ids[i]>>]]

\* A less function that puts the farther article first for nearby.
RankLessFarthestFirst(strat, a, b) ==
    CASE strat \in {"category", "source"} -> a.PublicationDate > b.PublicationDate
      [] strat = "score" -> a.RelevanceScore > b.RelevanceScore
      [] strat = "nearby" ->
            a.DistanceMeters # Nil /\ b.DistanceMeters # Nil
                /\ a.DistanceMeters[1] > b.DistanceMeters[1]
      [] OTHER -> FALSE

\* A less function that puts the older article first for category and source.
RankLessOldestFirst(strat, a, b) ==
    CASE strat \in {"category", "source"} -> a.PublicationDate < b.PublicationDate
      [] strat = "score" -> a.RelevanceScore > b.RelevanceScore
      [] strat = "search" ->
            IF a.SearchScore # Nil /\ b.SearchScore # Nil
              THEN a.SearchScore[1] > b.SearchScore[1]
              ELSE a.RelevanceScore > b.RelevanceScore
      [] strat = "nearby" ->
            IF a.DistanceMeters # Nil /\ b.DistanceMeters # Nil
              THEN a.DistanceMeters[1] < b.DistanceMeters[1]
              ELSE FALSE
      [] OTHER -> FALSE

\* client.go:470-499: the less function of each strategy's sort.Slice.
RankLess(strat, a, b) ==
    CASE strat \in {"category", "source"} -> a.PublicationDate > b.PublicationDate
      [] strat = "score" -> a.RelevanceScore > b.RelevanceScore
      [] strat = "search" ->
            IF a.SearchScore # Nil /\ b.SearchScore # Nil
              THEN a.SearchScore[1] > b.SearchScore[1]
              ELSE a.RelevanceScore > b.RelevanceScore
      [] strat = "nearby" ->
            IF a.DistanceMeters # Nil /\ b.DistanceMeters # Nil
              THEN a.DistanceMeters[1] < b.DistanceMeters[1]
              ELSE FALSE
      [] OTHER -> FALSE

\* The inner loop of the insertion sort: the element at j moves down while it is less
\* than the one before it.
RECURSIVE SiftDown(_, _, _)
SiftDown(arts, j, strat) ==
    IF j > 1 /\ RankLess(strat, arts[j], arts[j - 1])
      THEN SiftDown([arts EXCEPT ![j] = arts[j - 1], ![j - 1] = arts[j]], j - 1, strat)
      ELSE arts

\* sort.Slice on a slice of at most 12 elements (client.go:474, 479, 484, 493): the
\* insertion sort of package sort, from index i on.
RECURSIVE insertionSort(_, _, _)
insertionSort(arts, i, strat) ==
    IF i > Len(arts) THEN arts
    ELSE insertionSort(SiftDown(arts, i, strat), i + 1, strat)

\* client.go:470-502: sort.Slice sorts a slice of at most 12 elements by insertion; on a
\* longer one it is not stable and may return any arrangement in which no element is less
\* than one placed before it. Other strategies leave the slice as it is.
rankArticles(arts, strat) ==
    IF strat \notin {"category", "source", "score", "search", "nearby"} THEN {arts}
    ELSE IF Len(arts) <= 12 THEN {insertionSort(arts, 2, strat)}
    ELSE {[i \in 1..Len(arts) |-> arts[p[i]]] : p \in
            {q \in Permutations(1..Len(arts)) :
                \A i, j \in 1..Len(arts) : i < j => ~RankLess(strat, arts[q[j]], arts[q[i]])}}

\* The text a summarizer returns for an article.
SummaryFor(art) == <<"S", "u", "m", "m", "a", "r", "y", " ", "o", "f", " ">> \o art.Title

\* The applying loop without its test for the empty text.
ApplySummariesAlways(arts, sums) ==
    [i \in 1..Len(arts) |-> [arts[i] EXCEPT !.LLMSummary = Ptr(sums[i])]]

\* client.go:461-465
ApplySummaries(arts, sums) ==
    [i \in 1..Len(arts) |->
        IF sums[i] # <<>> THEN [arts[i] EXCEPT !.LLMSummary = Ptr(sums[i])] ELSE arts[i]]

\* client.go:163-165
Truncate(arts, limit) == IF Len(arts) > limit THEN SubSeq(arts, 1, limit) ELSE arts

-----------------------------------------------------------------------------
(* The HTTP handlers (package http) *)

ZeroRequest == [Query |-> <<>>, Lat |-> Nil, Lon |-> Nil, Radius |-> Nil, Limit |-> 0]

\* part_000:46-53, 55-62 and 64-71: an optional float parameter whose text parsed to v
\* (Nil when it did not parse) and was found in range or not; `bad` stands for the 400.
FloatParam(str, v, inRange) ==
    IF str = <<>> THEN [bad |-> FALSE, val |-> Nil]
    ELSE IF v # Nil /\ inRange THEN [bad |-> FALSE, val |-> v]
    ELSE [bad |-> TRUE, val |-> Nil]

\* part_000:73-80
LimitParam(str) ==
    IF str = <<>> THEN [bad |-> FALSE, val |-> 0]
    ELSE LET limit == Atoi(str)
         IN  IF limit # Nil /\ limit[1] > 0 /\ limit[1] <= MaxLimit
               THEN [bad |-> FALSE, val |-> limit[1]]
               ELSE [bad |-> TRUE, val |-> 0]

\* part_000:47 and 131; Nil is a text that did not parse
LatOk(lat) == lat # Nil /\ lat[1] >= 0 - 90000 /\ lat[1] <= 90000

\* part_000:56 and 137
LonOk(lon) == lon # Nil /\ lon[1] >= 0 - 180000 /\ lon[1] <= 180000

\* part_000:65
RadiusOk(radius) == radius # Nil /\ radius[1] > 0 /\ radius[1] <= 200000

\* part_000:37-80: the request built from the parameters of a GET, Nil for a 400.
ParseGet(params) ==
    LET lat == FloatParam(params.lat, ParseFloat(params.lat), LatOk(ParseFloat(params.lat)))
        lon == FloatParam(params.lon, ParseFloat(params.lon), LonOk(ParseFloat(params.lon)))
        radius == FloatParam(params.radius, ParseFloat(params.radius),
                             RadiusOk(ParseFloat(params.radius)))
        limit == LimitParam(params.limit)
    IN  IF params.query = <<>> THEN Nil
        ELSE IF lat.bad THEN Nil
        ELSE IF lon.bad THEN Nil
        ELSE IF radius.bad THEN Nil
        ELSE IF limit.bad THEN Nil
        ELSE Ptr([Query |-> params.query, Lat |-> lat.val, Lon |-> lon.val,
                  Radius |-> radius.val, Limit |-> limit.val])

\* part_000:83 and client.go:69-75: json.Decode fills the fields the body names and leaves
\* the others at their zero values; a body that is no JSON object (Nil) is an error.
Member(body, name, zero) == IF name \in DOMAIN body THEN body[name] ELSE zero

DecodeBody(body) ==
    IF body = Nil THEN Nil
    ELSE Ptr([Query |-> Member(body[1], "query", <<>>),
              Lat |-> Member(body[1], "lat", Nil),
              Lon |-> Member(body[1], "lon", Nil),
              Radius |-> Member(body[1], "radius_km", Nil),
              Limit |-> Member(body[1], "limit", 0)])

\* part_000:121-156: the request built by the trending endpoint, Nil for a 400.
ParseTrending(params) ==
    LET lat == ParseFloat(params.lat)
        lon == ParseFloat(params.lon)
        l == Atoi(params.limit)
    IN  IF params.lat = <<>> \/ params.lon = <<>> THEN Nil
        ELSE IF ~LatOk(lat) THEN Nil
        ELSE IF ~LonOk(lon) THEN Nil
        ELSE Ptr([Query |-> <<"t", "r", "e", "n", "d", "i", "n", "g", " ", "n", "e", "w", "s", " ", "n", "e", "a", "r", " ", "m", "e">>, Lat |-> lat, Lon |-> lon,
                  Radius |-> Ptr(TrendingRadius),
                  Limit |-> IF params.limit # <<>> /\ l # Nil /\ l[1] > 0 /\ l[1] <= MaxLimit
                              THEN l[1] ELSE DefaultLimit])

-----------------------------------------------------------------------------
(* The requests, classifier outputs and stores the service is exercised on *)

QueryTexts == {<<"A", "I">>, <<"s", "c", "o", "r", "e", " ", "a", "b", "o", "v", "e", " ", "0", ".", "9">>}

GetRequests ==
    [method : {"GET"},
     params : [query : QueryTexts \cup {<<>>},
               lat : {<<>>, <<"3", "7", ".", "7", "7", "5">>, <<"9", "1">>},
               lon : {<<>>, <<"-", "1", "2", "2", ".", "4", "1", "9">>},
               radius : {<<>>, <<"2">>, <<"0">>},
               limit : {<<>>, <<"1">>, <<"2">>, <<"5", "1">>, <<"0">>, <<"x">>}],
     body : {Nil}]

NoParams == [query |-> <<>>, lat |-> <<>>, lon |-> <<>>, radius |-> <<>>, limit |-> <<>>]

\* The JSON objects of the POST bodies: any of the members may be missing.
JsonBodies ==
    {q @@ c @@ r @@ l :
        q \in {<<>>, [query |-> <<"A", "I">>], [query |-> <<"s", "c", "o", "r", "e", " ", "a", "b", "o", "v", "e", " ", "0", ".", "9">>]},
        c \in {<<>>, [lat |-> Ptr(37775)], [lat |-> Ptr(37775), lon |-> Ptr(0 - 122419)]},
        r \in {<<>>, [radius_km |-> Ptr(2000)]},
        l \in {<<>>, [limit |-> 0 - 3], [limit |-> 0], [limit |-> 1], [limit |-> 2],
               [limit |-> 51]}}

PostRequests ==
    [method : {"POST"}, params : {NoParams}, body : {Nil} \cup {Ptr(b) : b \in JsonBodies}]

TrendingRequests ==
    [lat : {<<>>, <<"3", "7", ".", "7", "7", "5">>, <<"9", "1">>}, lon : {<<>>, <<"-", "1", "2", "2", ".", "4", "1", "9">>}, limit : {<<>>, <<"1">>, <<"2">>, <<"5", "1">>, <<"x">>}]

NoExtraction ==
    [People |-> <<>>, Organizations |-> <<>>, Locations |-> <<>>, Concepts |-> <<>>,
     Intent |-> <<>>, RadiusKm |-> Nil, SourceNames |-> <<>>, Categories |-> <<>>]

\* Outputs of the classifier (llm.LLMClient.Extract), confidences in tenths.
QueryExtractions ==
    {[NoExtraction EXCEPT !.Intent = <<[Type |-> <<"s", "e", "a", "r", "c", "h">>, Confidence |-> 7]>>],
     [NoExtraction EXCEPT !.Intent = <<[Type |-> <<"c", "a", "t", "e", "g", "o", "r", "y">>, Confidence |-> 9]>>,
                          !.Categories = <<<<"T", "e", "c", "h", "n", "o", "l", "o", "g", "y">>>>],
     [NoExtraction EXCEPT !.Intent = <<[Type |-> <<"s", "o", "u", "r", "c", "e">>, Confidence |-> 9]>>,
                          !.SourceNames = <<<<"B", "B", "C">>>>],
     [NoExtraction EXCEPT !.Intent = <<[Type |-> <<"s", "c", "o", "r", "e">>, Confidence |-> 9]>>],
     [NoExtraction EXCEPT !.Intent = <<[Type |-> <<"n", "e", "a", "r", "b", "y">>, Confidence |-> 8]>>,
                          !.Locations = <<<<"S", "a", "n", " ", "F", "r", "a", "n", "c", "i", "s", "c", "o">>>>],
     [NoExtraction EXCEPT !.Intent = <<[Type |-> <<"n", "e", "a", "r", "b", "y">>, Confidence |-> 7]>>]}

\* The repository after the loader has created the articles, with and without Redis.
Stores == {CreateAll(EmptyStore(mode), ArticlePool) : mode \in {"redis", "memory"}}

SummarizeOutcomes == {"text", "empty", "error"}

-----------------------------------------------------------------------------
(* The trending scorer (package trending): keys, events and scores.        *)
(* Times are whole minutes; weights, decays and scores are thousandths.    *)

\* keys.go:90
Base32 ==
    <<"0", "1", "2", "3", "4", "5", "6", "7", "8", "9", "b", "c", "d", "e", "f", "g",
      "h", "j", "k", "m", "n", "p", "q", "r", "s", "t", "u", "v", "w", "x", "y", "z">>

\* scorer.go:136 and 334
GeohashPrecision == 5

\* 32^5: the five digits GenerateGeohash takes are those of `combined` modulo this number.
GeohashSpace == 33554432

\* (x * 10^k) % 32^5, computed digit by digit so that no product exceeds 32 bits.
RECURSIVE TimesTenMod(_, _)
TimesTenMod(x, k) ==
    IF k = 0 THEN x % GeohashSpace ELSE TimesTenMod((x * 10) % GeohashSpace, k - 1)

\* keys.go:100-103: the `precision` lowest base-32 digits, the lowest first.
RECURSIVE Base32Digits(_, _)
Base32Digits(combined, precision) ==
    IF precision = 0 THEN <<>>
    ELSE <<Base32[(combined % 32) + 1]>> \o Base32Digits(combined \div 32, precision - 1)

\* keys.go:85-106, for coordinates in thousandths of a degree and precision <= 5:
\* latHash and lonHash are the fractions of the degrees in millionths.
GenerateGeohash(lat, lon, precision) ==
    LET latHash == ((lat + 90000) * 1000) % 1000000
        lonHash == ((lon + 180000) * 1000) % 1000000
        combined == (TimesTenMod(latHash, 6) + lonHash) % GeohashSpace
    IN  Base32Digits(combined, precision)

\* keys.go:63-66: "trending:geohash:%s:limit:%d"
TrendingKey(geohash, limit) == <<"trending:geohash:", geohash, ":limit:", limit>>

\* scorer.go:172: the limit the computation puts into the key it writes.
WriteLimit == 50

\* scorer.go:81 and 337: the window of the events (24 hours), in minutes.
WindowMinutes == 1440

\* keys.go:18: the TTL of a tile's key and of the metadata (2 minutes).
TrendingTTL == 2

\* The places the users of the events are at, and the event rows that may be created.
SpotA == [lat |-> 37775, lon |-> 0 - 122419]

SpotB == [lat |-> 37776, lon |-> 0 - 122419]

EventPool ==
    {[ID |-> 1, ArticleID |-> "a1", Event |-> "click", UserLat |-> Ptr(SpotA.lat), UserLon |-> Ptr(SpotA.lon)],
     [ID |-> 2, ArticleID |-> "a2", Event |-> "view", UserLat |-> Ptr(SpotA.lat), UserLon |-> Ptr(SpotA.lon)],
     [ID |-> 3, ArticleID |-> "a1", Event |-> "view", UserLat |-> Ptr(SpotB.lat), UserLon |-> Ptr(SpotB.lon)]}

\* The tiles of the places and the keys the scorer and its readers use.
Tiles == {GenerateGeohash(s.lat, s.lon, GeohashPrecision) : s \in {SpotA, SpotB}}

ReadLimits == {1, 2, WriteLimit}

TrendKeys == {TrendingKey(g, n) : g \in Tiles, n \in ReadLimits}

\* part_005:60-67 and part_004:545-556: a created event occurs at the time of the insert.
CreateUserEvent(e, t) ==
    [ID |-> e.ID, ArticleID |-> e.ArticleID, Event |-> e.Event, OccurredAt |-> t,
     UserLat |-> e.UserLat, UserLon |-> e.UserLon]

PoolArticle(id) == CHOOSE a \in ArticlePool : a.ID = id

\* part_003:66-80: the events since `since` that carry a user location, joined with the
\* location of their article (articles without a location drop out).
GetRecentEventsByGeohash(rows, since) ==
    {[ID |-> e.ID, ArticleID |-> e.ArticleID, Event |-> e.Event, OccurredAt |-> e.OccurredAt,
      UserLat |-> e.UserLat, UserLon |-> e.UserLon,
      Latitude |-> PoolArticle(e.ArticleID).Latitude,
      Longitude |-> PoolArticle(e.ArticleID).Longitude] :
        e \in {x \in rows : /\ HasCoordinates(PoolArticle(x.ArticleID))
                            /\ x.OccurredAt >= since
                            /\ x.UserLat # Nil /\ x.UserLon # Nil}}

\* scorer.go:136
TileOf(event) == GenerateGeohash(event.UserLat[1], event.UserLon[1], GeohashPrecision)

\* scorer.go:127-141: the map from the tiles to their events.
groupEventsByTile(events) ==
    LET located == {e \in events : e.UserLat # Nil /\ e.UserLon # Nil}
    IN  [g \in {TileOf(e) : e \in located} |-> {e \in located : TileOf(e) = g}]

\* scorer.go:347: indexing the map with a tile that has no events gives the nil slice.
EventsOfTile(groups, g) == IF g \in DOMAIN groups THEN groups[g] ELSE {}

\* math.Exp(-hours / 6) for whole hours, in thousandths; the decay within an hour is taken
\* as that of its beginning.
ExpDecayTable ==
    <<1000, 846, 717, 607, 513, 435, 368, 311, 264, 223, 189, 160, 135, 115, 97, 82, 69, 59,
      50, 42, 36, 30, 26, 22, 18, 16, 13, 11, 9, 8, 7, 6, 5, 4, 3, 3, 2>>

\* A factor that grows with the age of the event.
ExpDecayRising(minutes) ==
    IF minutes \div 60 < Len(ExpDecayTable)
      THEN ExpDecayTable[Len(ExpDecayTable) - (minutes \div 60)] ELSE 0

ExpDecay(minutes) ==
    IF minutes \div 60 < Len(ExpDecayTable) THEN ExpDecayTable[(minutes \div 60) + 1] ELSE 0

\* scorer.go:228-243, in metres, for two points on one meridian.
tsHaversineDistance(lat1, lon1, lat2, lon2) == 111 * Abs(lat2 - lat1)

\* scorer.go:198-225 at the time t.
calculateEventScore(event, t) ==
    LET eventWeight == IF event.Event = "click" THEN 2000 ELSE 1000
        timeDecay == ExpDecay(t - event.OccurredAt)
        geoDecay ==
            IF /\ event.UserLat # Nil /\ event.UserLon # Nil
               /\ event.Latitude # Nil /\ event.Longitude # Nil
              THEN (1000 * 10000) \div
                      (10000 + tsHaversineDistance(event.UserLat[1], event.UserLon[1],
                                                   event.Latitude[1], event.Longitude[1]))
              ELSE 1000
    IN  (((eventWeight * timeDecay) \div 1000) * geoDecay) \div 1000

RECURSIVE SumScores(_, _)
SumScores(events, t) ==
    IF events = {} THEN 0
    ELSE LET e == CHOOSE x \in events : TRUE
         IN  calculateEventScore(e, t) + SumScores(events \ {e}, t)

\* A map in which the score of an event replaces the entry of its article (= for +=).
articleScoresAssigned(events, t) ==
    {[ArticleID |-> id,
      Score |-> calculateEventScore(CHOOSE e \in events : e.ArticleID = id, t)] :
        id \in {e.ArticleID : e \in events}}

\* scorer.go:150-155: the map from the articles of the events to their summed scores, as
\* the set of its entries.
articleScores(events, t) ==
    {[ArticleID |-> id, Score |-> SumScores({e \in events : e.ArticleID = id}, t)] :
        id \in {e.ArticleID : e \in events}}

\* scorer.go:158-169: the entries in a descending order of their scores (sort.Slice: any
\* arrangement without an inversion).
trendingScores(events, t) ==
    LET entries == articleScores(events, t)
    IN  {list \in [1..Cardinality(entries) -> entries] :
            /\ \A i, j \in DOMAIN list : list[i] = list[j] => i = j
            /\ \A i, j \in DOMAIN list : i < j => list[i].Score >= list[j].Score}

\* redis.go:101-104: ZADD sets the score of the member.
ZAdd(zs, z) == {x \in zs : x.Member # z.Member} \cup {z}

\* The member a descending range of a sorted set hands out first: the highest score, and
\* among equal scores the greatest member.
ZFirst(zs) ==
    CHOOSE x \in zs : \A y \in zs :
        \/ y.Score < x.Score
        \/ y.Score = x.Score /\ IdRank(y.Member) <= IdRank(x.Member)

\* redis.go:130-132: ZREVRANGE key 0 stop WITHSCORES.
RECURSIVE ZRevRangeWithScores(_, _)
ZRevRangeWithScores(zs, stop) ==
    IF zs = {} \/ stop < 0 THEN <<>>
    ELSE <<ZFirst(zs)>> \o ZRevRangeWithScores(zs \ {ZFirst(zs)}, stop - 1)

\* scorer.go:317-327: the members and scores as TrendingScore values.
ToTrendingScores(scores) ==
    [i \in 1..Len(scores) |-> [ArticleID |-> scores[i].Member, Score |-> scores[i].Score]]

\* The writers of the tile keys: the background loop and a caller of ForceRecompute.
Writers == {"loop", "force"}

\* The instants the clock is read at: the start, the end of the window of an event of the
\* start, and a moment later.
ShortStep == 1

Instants == {0, WindowMinutes, WindowMinutes + ShortStep}

\* The instants the users are active at.
EventInstants == {0}

\* The locals of a writer that is not computing.
IdleWriter ==
    [pc |-> "idle", fetched |-> {}, groups |-> <<>>, todo |-> {}, tileCount |-> 0,
     tile |-> <<>>, at |-> 0, events |-> {}, list |-> <<>>, before |-> {}, target |-> {},
     after |-> {},
     bad |-> FALSE, failed |-> {}, wrote |-> {}]

\* The count of the late cycles stops at this number.
MaxLateCycles == 2

NoLateCycles == [stop |-> 0, cancel |-> 0]

\* A cycle begins: it is counted as late for Stop when `done` is closed and as late for
\* the cancellation when the context is cancelled.
CountLate(n) ==
    [stop |-> IF doneClosed THEN Min(n.stop + 1, MaxLateCycles) ELSE n.stop,
     cancel |-> IF ctxDone THEN Min(n.cancel + 1, MaxLateCycles) ELSE n.cancel]

\* The state after NewTrendingScorer (scorer.go:37-43), with no event recorded, no key in
\* Redis and the clock at minute 0.
TrendIdle ==
    /\ now = 0
    /\ userEvents = {}
    /\ zsets = [k \in TrendKeys |-> {}]
    /\ zttl = [k \in TrendKeys |-> FALSE]
    /\ meta = Nil
    /\ loop = "off"
    /\ tick = FALSE
    /\ tickerOn = FALSE
    /\ doneClosed = FALSE
    /\ ctxDone = FALSE
    /\ writer = [w \in Writers |-> IdleWriter]
    /\ running = 0
    /\ lastCycle = Nil
    /\ lateCycles = NoLateCycles

\* The goroutines net/http serves requests in.
Handlers == {"h1", "h2"}

\* The addresses getClientIP returns.
ClientIPs == {"10.0.0.1", "10.0.0.2"}

\* ratelimit.go:18-23: DefaultRateLimitConfig.
RequestsPerMinute == 60

BurstSize == 10

\* The clock of the rate limiter stops here.
MaxSeconds == 2

\* The `client` of a goroutine that has none yet.
NoClient == [held |-> FALSE, shared |-> FALSE, tokens |-> 0, lastRefill |-> 0]

\* The `client` that is the clientLimit the map points to.
SharedClient == [held |-> TRUE, shared |-> TRUE, tokens |-> 0, lastRefill |-> 0]

\* The `client` that is a clientLimit the map points to no more, with its fields.
OwnClient(limit) ==
    [held |-> TRUE, shared |-> FALSE, tokens |-> limit.tokens, lastRefill |-> limit.lastRefill]

\* A goroutine that is serving no request.
IdleHandler ==
    [pc |-> "idle", ip |-> "", now |-> 0, client |-> NoClient, seen |-> 0, out |-> "none"]

\* ratelimit.go:112-118: NewSimpleRateLimiter, no request yet.
LimitIdle ==
    /\ rlNow = 0
    /\ clients = [ip \in ClientIPs |-> Nil]
    /\ handler = [h \in Handlers |-> IdleHandler]

-----------------------------------------------------------------------------
(* RedisCache.GetOrSet, one action per Redis command or producer call.     *)
(* `ok` tells whether the Redis command succeeds.                          *)

\* Get: redis.Nil or any other error is a miss for GetOrSet (it tests err == nil only).
GetHits(ok) == ok /\ cacheVal # NoVal

\* A first read that, on a hit, creates the lock key before it returns.
StartHitTakesLock(c, ok) ==
    /\ pc[c] = "idle"
    /\ IF GetHits(ok)
         THEN /\ pc' = [pc EXCEPT ![c] = "done"]
              /\ ret' = [ret EXCEPT ![c] = cacheVal]
              /\ lock' = c
         ELSE /\ pc' = [pc EXCEPT ![c] = "setnx"]
              /\ ret' = ret
              /\ lock' = lock
    /\ UNCHANGED <<cacheVal, held, polls, value, lockFailed, ranFn, fnRuns>>
    /\ UNCHANGED <<queryVars, trendVars, limitVars>>

\* redis.go:153-155: the first read of the key.
Start(c, ok) ==
    /\ pc[c] = "idle"
    /\ IF GetHits(ok)
         THEN /\ pc' = [pc EXCEPT ![c] = "done"]
              /\ ret' = [ret EXCEPT ![c] = cacheVal]
         ELSE /\ pc' = [pc EXCEPT ![c] = "setnx"]
              /\ ret' = ret
    /\ UNCHANGED <<cacheVal, lock, held, polls, value, lockFailed, ranFn, fnRuns>>
    /\ UNCHANGED <<queryVars, trendVars, limitVars>>

\* redis.go:161-180: SetNX on lock:<key> with a 10s TTL; on success the deferred Del is
\* registered and fn() is called.
SetNXLock(c, ok) ==
    /\ pc[c] = "setnx"
    /\ IF ~ok
         THEN /\ pc' = [pc EXCEPT ![c] = "done"]
              /\ ret' = [ret EXCEPT ![c] = ErrLock]
              /\ UNCHANGED <<lock, held, polls, lockFailed, ranFn, fnRuns>>
         ELSE IF lock = 0
           THEN /\ lock' = c
                /\ held' = [held EXCEPT ![c] = TRUE]
                /\ pc' = [pc EXCEPT ![c] = "producing"]
                /\ ranFn' = [ranFn EXCEPT ![c] = TRUE]
                /\ fnRuns' = fnRuns + 1
                /\ UNCHANGED <<polls, lockFailed, ret>>
           ELSE /\ pc' = [pc EXCEPT ![c] = "poll"]
                /\ polls' = [polls EXCEPT ![c] = 0]
                /\ lockFailed' = [lockFailed EXCEPT ![c] = TRUE]
                /\ UNCHANGED <<lock, held, ranFn, fnRuns, ret>>
    /\ UNCHANGED <<cacheVal, value>>
    /\ UNCHANGED <<queryVars, trendVars, limitVars>>

\* A producer error that returns at once, with no deferred Del of the lock.
FnReturnNoDefer(c, r) ==
    /\ pc[c] = "producing"
    /\ IF r \in Values
         THEN /\ value' = [value EXCEPT ![c] = r]
              /\ pc' = [pc EXCEPT ![c] = "set"]
              /\ ret' = ret
         ELSE /\ ret' = [ret EXCEPT ![c] = ErrGenerate]
              /\ pc' = [pc EXCEPT ![c] = "done"]
              /\ value' = value
    /\ UNCHANGED <<cacheVal, lock, held, polls, lockFailed, ranFn, fnRuns>>
    /\ UNCHANGED <<queryVars, trendVars, limitVars>>

\* redis.go:180-183: fn() returns a value or an error.
FnReturn(c, r) ==
    /\ pc[c] = "producing"
    /\ IF r \in Values
         THEN /\ value' = [value EXCEPT ![c] = r]
              /\ pc' = [pc EXCEPT ![c] = "set"]
              /\ ret' = ret
         ELSE /\ ret' = [ret EXCEPT ![c] = ErrGenerate]
              /\ pc' = [pc EXCEPT ![c] = "del"]
              /\ value' = value
    /\ UNCHANGED <<cacheVal, lock, held, polls, lockFailed, ranFn, fnRuns>>
    /\ UNCHANGED <<queryVars, trendVars, limitVars>>

\* redis.go:186-198: store the value under the key and return its bytes.
SetValue(c, ok) ==
    /\ pc[c] = "set"
    /\ IF ok
         THEN /\ cacheVal' = value[c]
              /\ ret' = [ret EXCEPT ![c] = value[c]]
         ELSE /\ cacheVal' = cacheVal
              /\ ret' = [ret EXCEPT ![c] = ErrStore]
    /\ pc' = [pc EXCEPT ![c] = "del"]
    /\ UNCHANGED <<lock, held, polls, value, lockFailed, ranFn, fnRuns>>
    /\ UNCHANGED <<queryVars, trendVars, limitVars>>

\* redis.go:178 (deferred) and 89-91: Del deletes lock:<key>, whoever created it; the
\* error of a Del that fails is dropped and the key stays until its TTL runs out.
DelLock(c, ok) ==
    /\ pc[c] = "del"
    /\ lock' = IF ok THEN 0 ELSE lock
    /\ held' = IF ok THEN [held EXCEPT ![c] = FALSE] ELSE held
    /\ pc' = [pc EXCEPT ![c] = "done"]
    /\ UNCHANGED <<cacheVal, polls, value, ret, lockFailed, ranFn, fnRuns>>
    /\ UNCHANGED <<queryVars, trendVars, limitVars>>

\* Poll with the loop bound off by one (i <= 50): a plausible slip in the loop header.
PollOffByOne(c, ok) ==
    /\ pc[c] = "poll"
    /\ IF GetHits(ok)
         THEN /\ pc' = [pc EXCEPT ![c] = "done"]
              /\ ret' = [ret EXCEPT ![c] = cacheVal]
              /\ polls' = [polls EXCEPT ![c] = 0]
         ELSE /\ polls' = [polls EXCEPT ![c] = polls[c] + 1]
              /\ IF polls[c] + 1 <= MaxPolls
                   THEN /\ pc' = pc
                        /\ ret' = ret
                   ELSE /\ pc' = [pc EXCEPT ![c] = "done"]
                        /\ ret' = [ret EXCEPT ![c] = ErrTimeout]
    /\ UNCHANGED <<cacheVal, lock, held, value, lockFailed, ranFn, fnRuns>>
    /\ UNCHANGED <<queryVars, trendVars, limitVars>>

\* redis.go:168-174: one iteration of the wait loop: sleep 100ms, read the key.
Poll(c, ok) ==
    /\ pc[c] = "poll"
    /\ IF GetHits(ok)
         THEN /\ pc' = [pc EXCEPT ![c] = "done"]
              /\ ret' = [ret EXCEPT ![c] = cacheVal]
              /\ polls' = [polls EXCEPT ![c] = 0]
         ELSE /\ polls' = [polls EXCEPT ![c] = polls[c] + 1]
              /\ IF polls[c] + 1 < MaxPolls
                   THEN /\ pc' = pc
                        /\ ret' = ret
                   ELSE /\ pc' = [pc EXCEPT ![c] = "done"]
                        /\ ret' = [ret EXCEPT ![c] = ErrTimeout]
    /\ UNCHANGED <<cacheVal, lock, held, value, lockFailed, ranFn, fnRuns>>
    /\ UNCHANGED <<queryVars, trendVars, limitVars>>

\* redis.go:161: the lock's 10s TTL runs out. The window of a lock that another caller's
\* Del already removed runs out first (it was opened earlier).
LockExpire ==
    /\ lock # 0
    /\ \A d \in Procs : held[d] => d = lock
    /\ held' = [held EXCEPT ![lock] = FALSE]
    /\ lock' = 0
    /\ UNCHANGED <<cacheVal, pc, polls, value, ret, lockFailed, ranFn, fnRuns>>
    /\ UNCHANGED <<queryVars, trendVars, limitVars>>

\* The 10s window of a lock that was deleted by another caller runs out.
WindowExpire(c) ==
    /\ held[c]
    /\ lock # c
    /\ held' = [held EXCEPT ![c] = FALSE]
    /\ UNCHANGED <<cacheVal, lock, pc, polls, value, ret, lockFailed, ranFn, fnRuns>>
    /\ UNCHANGED <<queryVars, trendVars, limitVars>>

\* redis.go:186: the key's own TTL runs out.
KeyExpire ==
    /\ cacheVal # NoVal
    /\ cacheVal' = NoVal
    /\ UNCHANGED <<lock, held, pc, polls, value, ret, lockFailed, ranFn, fnRuns>>
    /\ UNCHANGED <<queryVars, trendVars, limitVars>>

CacheInit ==
    /\ cacheVal = NoVal
    /\ lock = 0
    /\ held = [c \in Procs |-> FALSE]
    /\ pc = [c \in Procs |-> "idle"]
    /\ polls = [c \in Procs |-> 0]
    /\ value = [c \in Procs |-> NoVal]
    /\ ret = [c \in Procs |-> NoRet]
    /\ lockFailed = [c \in Procs |-> FALSE]
    /\ ranFn = [c \in Procs |-> FALSE]
    /\ fnRuns = 0

\* One step of caller c; oks and results are the outcomes Redis and the producer may have.
CacheStep(c, oks, results) ==
    \/ \E ok \in oks : Start(c, ok)
    \/ \E ok \in oks : SetNXLock(c, ok)
    \/ \E r \in results : FnReturn(c, r)
    \/ \E ok \in oks : SetValue(c, ok)
    \/ \E ok \in oks : DelLock(c, ok)
    \/ \E ok \in oks : Poll(c, ok)

\* Redis commands and the producer may fail, and the TTLs may run out during the calls.
CacheNext ==
    \/ \E c \in Callers : CacheStep(c, BOOLEAN, Values \cup {ErrGenerate})
    \/ LockExpire
    \/ \E c \in Callers : WindowExpire(c)
    \/ KeyExpire

\* The same with one more caller.
CacheNextRace ==
    \/ \E c \in Procs : CacheStep(c, BOOLEAN, Values \cup {ErrGenerate})
    \/ LockExpire
    \/ \E c \in Procs : WindowExpire(c)
    \/ KeyExpire

\* The calls with Redis and the producer working and no TTL running out.
CacheNextNoFault == \E c \in Callers : CacheStep(c, {TRUE}, Values)

-----------------------------------------------------------------------------
(* One request through the handler and NewsService.Query *)

\* part_000:41-91: the text of the 400 the Query handler answers a request with.
QueryBadRequest(r) ==
    IF r.method = "GET"
      THEN IF r.params.query = <<>> THEN <<"q", "u", "e", "r", "y", " ", "p", "a", "r", "a", "m", "e", "t", "e", "r", " ", "i", "s", " ", "r", "e", "q", "u", "i", "r", "e", "d">>
           ELSE IF FloatParam(r.params.lat, ParseFloat(r.params.lat), LatOk(ParseFloat(r.params.lat))).bad
             THEN <<"i", "n", "v", "a", "l", "i", "d", " ", "l", "a", "t", "i", "t", "u", "d", "e", " ", "v", "a", "l", "u", "e">>
           ELSE IF FloatParam(r.params.lon, ParseFloat(r.params.lon), LonOk(ParseFloat(r.params.lon))).bad
             THEN <<"i", "n", "v", "a", "l", "i", "d", " ", "l", "o", "n", "g", "i", "t", "u", "d", "e", " ", "v", "a", "l", "u", "e">>
           ELSE IF FloatParam(r.params.radius, ParseFloat(r.params.radius),
                              RadiusOk(ParseFloat(r.params.radius))).bad
             THEN <<"i", "n", "v", "a", "l", "i", "d", " ", "r", "a", "d", "i", "u", "s", " ", "v", "a", "l", "u", "e", " ", "(", "m", "u", "s", "t", " ", "b", "e", " ", "0", ".", "1", "-", "2", "0", "0", " ", "k", "m", ")">>
           ELSE <<"i", "n", "v", "a", "l", "i", "d", " ", "l", "i", "m", "i", "t", " ", "v", "a", "l", "u", "e", " ", "(", "m", "u", "s", "t", " ", "b", "e", " ", "1", "-", "5", "0", ")">>
      ELSE IF r.body = Nil THEN <<"i", "n", "v", "a", "l", "i", "d", " ", "r", "e", "q", "u", "e", "s", "t", " ", "b", "o", "d", "y">>
           ELSE <<"q", "u", "e", "r", "y", " ", "i", "s", " ", "r", "e", "q", "u", "i", "r", "e", "d">>

\* part_000:125-139: the text of the 400 the Trending handler answers a request with.
TrendingBadRequest(params) ==
    IF params.lat = <<>> \/ params.lon = <<>> THEN <<"l", "a", "t", "i", "t", "u", "d", "e", " ", "a", "n", "d", " ", "l", "o", "n", "g", "i", "t", "u", "d", "e", " ", "a", "r", "e", " ", "r", "e", "q", "u", "i", "r", "e", "d">>
    ELSE IF ~LatOk(ParseFloat(params.lat)) THEN <<"i", "n", "v", "a", "l", "i", "d", " ", "l", "a", "t", "i", "t", "u", "d", "e">>
    ELSE <<"i", "n", "v", "a", "l", "i", "d", " ", "l", "o", "n", "g", "i", "t", "u", "d", "e">>

\* The text of the error a failing classifier returns from Extract.
ExtractError == <<"c", "o", "n", "n", "e", "c", "t", "i", "o", "n", " ", "r", "e", "f", "u", "s", "e", "d">>

\* client.go:398
NearbyError == <<"l", "a", "t", "i", "t", "u", "d", "e", " ", "a", "n", "d", " ", "l", "o", "n", "g", "i", "t", "u", "d", "e", " ", "a", "r", "e", " ", "r", "e", "q", "u", "i", "r", "e", "d", " ", "f", "o", "r", " ", "n", "e", "a", "r", "b", "y", " ", "s", "e", "a", "r", "c", "h">>

\* part_000:105 and 161: the text of the 500 for the error text errText Query returned;
\* the Trending handler writes err.Error() as it is.
InternalError(endpoint, errText) ==
    IF endpoint = "TRENDING" THEN errText
    ELSE <<"F", "a", "i", "l", "e", "d", " ", "t", "o", " ", "p", "r", "o", "c", "e", "s", "s", " ", "q", "u", "e", "r", "y", ":", " ">> \o errText

\* part_000:33-101: the Query handler up to the call of NewsService.Query.
HandleQuery(r) ==
    /\ qpc = "idle"
    /\ via' = r.method
    /\ LET parsed == IF r.method = "GET" THEN ParseGet(r.params) ELSE DecodeBody(r.body)
       IN  IF parsed = Nil \/ parsed[1].Query = <<>>
             THEN /\ httpStatus' = 400
                  /\ httpBody' = QueryBadRequest(r)
                  /\ qpc' = "done"
                  /\ req' = req
             ELSE /\ req' = IF parsed[1].Limit <= 0
                              THEN [parsed[1] EXCEPT !.Limit = DefaultLimit] ELSE parsed[1]
                  /\ qpc' = "query"
                  /\ httpStatus' = httpStatus
                  /\ httpBody' = httpBody
    /\ UNCHANGED <<cacheVars, trendVars, limitVars, extraction, strategy, store, storeCall, redisOps, articles, pending,
                   summaries, summarizeCalls, delivered, ranked, response>>

\* part_000:119-159: the Trending handler up to the call of NewsService.Query.
HandleTrending(params) ==
    /\ qpc = "idle"
    /\ via' = "TRENDING"
    /\ LET parsed == ParseTrending(params)
       IN  IF parsed = Nil
             THEN /\ httpStatus' = 400
                  /\ httpBody' = TrendingBadRequest(params)
                  /\ qpc' = "done"
                  /\ req' = req
             ELSE /\ req' = parsed[1]
                  /\ qpc' = "query"
                  /\ httpStatus' = httpStatus
                  /\ httpBody' = httpBody
    /\ UNCHANGED <<cacheVars, trendVars, limitVars, extraction, strategy, store, storeCall, redisOps, articles, pending,
                   summaries, summarizeCalls, delivered, ranked, response>>

\* A Query that goes to the store with the search of the text when Extract has failed.
QueryExtractThenStore(x) ==
    /\ qpc = "query"
    /\ req' = IF req.Limit <= 0 THEN [req EXCEPT !.Limit = DefaultLimit] ELSE req
    /\ IF x = Nil
         THEN /\ httpStatus' = 500
              /\ httpBody' = InternalError(via, <<"f", "a", "i", "l", "e", "d", " ", "t", "o", " ", "e", "x", "t", "r", "a", "c", "t", " ", "q", "u", "e", "r", "y", " ", "i", "n", "t", "e", "n", "t", ":", " ">> \o ExtractError)
              /\ qpc' = "done"
              /\ extraction' = extraction
              /\ storeCall' = Ptr(StoreCallOf("search", extraction, req))
         ELSE /\ extraction' = x[1]
              /\ qpc' = "extracted"
              /\ httpStatus' = httpStatus
              /\ httpBody' = httpBody
              /\ storeCall' = storeCall
    /\ UNCHANGED <<cacheVars, trendVars, limitVars, via, strategy, store, redisOps, articles, pending, summaries,
                   summarizeCalls, delivered, ranked, response>>

\* client.go:116-126 and part_000:102-107: the default limit and the classifier's answer
\* (Nil when Extract fails).
QueryExtract(x) ==
    /\ qpc = "query"
    /\ req' = IF req.Limit <= 0 THEN [req EXCEPT !.Limit = DefaultLimit] ELSE req
    /\ IF x = Nil
         THEN /\ httpStatus' = 500
              /\ httpBody' = InternalError(via, <<"f", "a", "i", "l", "e", "d", " ", "t", "o", " ", "e", "x", "t", "r", "a", "c", "t", " ", "q", "u", "e", "r", "y", " ", "i", "n", "t", "e", "n", "t", ":", " ">> \o ExtractError)
              /\ qpc' = "done"
              /\ extraction' = extraction
         ELSE /\ extraction' = x[1]
              /\ qpc' = "extracted"
              /\ httpStatus' = httpStatus
              /\ httpBody' = httpBody
    /\ UNCHANGED <<cacheVars, trendVars, limitVars, via, strategy, store, storeCall, redisOps, articles, pending, summaries,
                   summarizeCalls, delivered, ranked, response>>

\* client.go:129
DetermineStrategy ==
    /\ qpc = "extracted"
    /\ strategy' = determineStrategy(extraction, req)
    /\ qpc' = "routed"
    /\ UNCHANGED <<cacheVars, trendVars, limitVars, via, req, extraction, store, storeCall, redisOps, articles, pending,
                   summaries, summarizeCalls, delivered, ranked, response, httpStatus, httpBody>>

\* client.go:131-154: the selected retrieval operation; `order` is the order in which the
\* map or the Redis set hands out its members.
Retrieve(order) ==
    /\ qpc = "routed"
    /\ IF strategy = "nearby" /\ NearbyWithoutLocation(extraction, req)
         THEN /\ httpStatus' = 500
              /\ httpBody' = InternalError(via, <<"f", "a", "i", "l", "e", "d", " ", "t", "o", " ", "r", "e", "t", "r", "i", "e", "v", "e", " ", "a", "r", "t", "i", "c", "l", "e", "s", ":", " ">> \o NearbyError)
              /\ qpc' = "done"
              /\ UNCHANGED <<storeCall, redisOps, articles>>
         ELSE /\ \E found \in RetrievalResults(strategy, extraction, req, store, order) :
                    /\ articles' = found
                    /\ redisOps' = redisOps \o
                          RepoRedisOps(store, StoreCallOf(strategy, extraction, req),
                                       [i \in 1..Len(found) |-> found[i].ID])
              /\ storeCall' = Ptr(StoreCallOf(strategy, extraction, req))
              /\ qpc' = "retrieved"
              /\ httpStatus' = httpStatus
              /\ httpBody' = httpBody
    /\ UNCHANGED <<cacheVars, trendVars, limitVars, via, req, extraction, strategy, store, pending, summaries,
                   summarizeCalls, delivered,
                   ranked, response>>

\* client.go:157 and 438-452: enrichArticles starts one goroutine for each article.
EnrichStart ==
    /\ qpc = "retrieved"
    /\ pending' = 1..Len(articles)
    /\ summaries' = [i \in 1..Len(articles) |-> <<>>]
    /\ qpc' = "enriching"
    /\ UNCHANGED <<cacheVars, trendVars, limitVars, via, req, extraction, strategy, store, storeCall, redisOps, articles,
                   summarizeCalls, delivered, ranked, response, httpStatus, httpBody>>

\* A collecting loop that files each result in the order of its arrival instead of under
\* the index it carries.
SummarizeInArrivalOrder(idx, outcome) ==
    /\ qpc = "enriching"
    /\ idx \in pending
    /\ pending' = pending \ {idx}
    /\ summarizeCalls' = summarizeCalls + 1
    /\ summaries' = [summaries EXCEPT
                        ![Len(articles) - Cardinality(pending) + 1] =
                            IF outcome = "text" THEN SummaryFor(articles[idx]) ELSE <<>>]
    /\ delivered' = delivered \cup
                    {[index |-> idx, ID |-> articles[idx].ID,
                      summary |-> IF outcome = "text" THEN SummaryFor(articles[idx]) ELSE <<>>,
                      err |-> outcome = "error"]}
    /\ UNCHANGED <<cacheVars, trendVars, limitVars, qpc, via, req, extraction, strategy, store, storeCall, redisOps, articles,
                   ranked, response, httpStatus, httpBody>>

\* client.go:441-448 and 453-458: goroutine idx calls Summarize and sends the result, and
\* the collecting loop stores the summary of a call that did not fail.
Summarize(idx, outcome) ==
    /\ qpc = "enriching"
    /\ idx \in pending
    /\ pending' = pending \ {idx}
    /\ summarizeCalls' = summarizeCalls + 1
    /\ summaries' = [summaries EXCEPT
                        ![idx] = IF outcome = "text" THEN SummaryFor(articles[idx]) ELSE <<>>]
    /\ delivered' = delivered \cup
                    {[index |-> idx, ID |-> articles[idx].ID,
                      summary |-> IF outcome = "text" THEN SummaryFor(articles[idx]) ELSE <<>>,
                      err |-> outcome = "error"]}
    /\ UNCHANGED <<cacheVars, trendVars, limitVars, qpc, via, req, extraction, strategy, store, storeCall, redisOps, articles,
                   ranked, response, httpStatus, httpBody>>

\* The collecting loop with len(articles) - 1 rounds: it returns with a call outstanding.
EnrichReturnEarly ==
    /\ qpc = "enriching"
    /\ Cardinality(pending) <= 1
    /\ articles' = ApplySummaries(articles, summaries)
    /\ qpc' = "rank"
    /\ UNCHANGED <<cacheVars, trendVars, limitVars, via, req, extraction, strategy, store, storeCall, redisOps, pending,
                   summaries, summarizeCalls, delivered, ranked, response, httpStatus, httpBody>>

\* client.go:453-467: after len(articles) results the summaries are applied by index.
EnrichReturn ==
    /\ qpc = "enriching"
    /\ pending = {}
    /\ articles' = ApplySummaries(articles, summaries)
    /\ qpc' = "rank"
    /\ UNCHANGED <<cacheVars, trendVars, limitVars, via, req, extraction, strategy, store, storeCall, redisOps, pending,
                   summaries, summarizeCalls, delivered, ranked, response, httpStatus, httpBody>>

\* client.go:160-188 and part_000:109-112: rank, truncate and answer.
Rank ==
    /\ qpc = "rank"
    /\ \E sorted \in rankArticles(articles, strategy) :
          /\ ranked' = Ptr(sorted)
          /\ articles' = Truncate(sorted, req.Limit)
          /\ response' = Truncate(sorted, req.Limit)
    /\ httpStatus' = 200
    /\ httpBody' = <<>>
    /\ qpc' = "done"
    /\ UNCHANGED <<cacheVars, trendVars, limitVars, via, req, extraction, strategy, store, storeCall, redisOps,
                   pending, summaries, summarizeCalls, delivered>>

\* No request is being served.
QueryIdle ==
    /\ qpc = "idle"
    /\ via = "none"
    /\ req = ZeroRequest
    /\ extraction = NoExtraction
    /\ strategy = ""
    /\ storeCall = Nil
    /\ redisOps = <<>>
    /\ articles = <<>>
    /\ pending = {}
    /\ summaries = <<>>
    /\ summarizeCalls = 0
    /\ delivered = {}
    /\ ranked = Nil
    /\ response = <<>>
    /\ httpStatus = 0
    /\ httpBody = <<>>

QueryInit ==
    /\ CacheInit
    /\ QueryIdle
    /\ TrendIdle
    /\ LimitIdle
    /\ store \in Stores

QueryNext ==
    \/ \E r \in GetRequests \cup PostRequests : HandleQuery(r)
    \/ \E params \in TrendingRequests : HandleTrending(params)
    \/ \E x \in {Nil} \cup {Ptr(e) : e \in QueryExtractions} : QueryExtract(x)
    \/ DetermineStrategy
    \/ \E order \in Orders : Retrieve(order)
    \/ EnrichStart
    \/ \E idx \in 1..Len(ArticleIds), outcome \in SummarizeOutcomes : Summarize(idx, outcome)
    \/ EnrichReturn
    \/ Rank

\* The strategy selector alone, on every classifier output and request of the domains.
StrategyInit ==
    /\ CacheInit
    /\ TrendIdle
    /\ LimitIdle
    /\ qpc = "extracted"
    /\ via = "none"
    /\ req \in StrategyRequests
    /\ extraction \in StrategyExtractions
    /\ strategy = ""
    /\ store \in {CreateAll(EmptyStore("memory"), ArticlePool)}
    /\ storeCall = Nil
    /\ redisOps = <<>>
    /\ articles = <<>>
    /\ pending = {}
    /\ summaries = <<>>
    /\ summarizeCalls = 0
    /\ delivered = {}
    /\ ranked = Nil
    /\ response = <<>>
    /\ httpStatus = 0
    /\ httpBody = <<>>

-----------------------------------------------------------------------------
(* The trending scorer: the background loop, ForceRecompute and the readers, *)
(* one action per Redis command or repository call. `ok` tells whether the   *)
(* call succeeds.                                                            *)

\* A call made by writer w succeeds: the call itself does, and the context the background
\* loop was started with has not been cancelled.
Succeeds(w, ok) == ok /\ ~(w = "loop" /\ ctxDone)

\* The writers take turns: a call of ForceRecompute and a cycle of the loop do not run at
\* the same time.
NoOtherWriter(w) == \A v \in Writers \ {w} : writer[v].pc = "idle"

\* Writer w stands between the Del and the return of computeTileScore for tile g.
Computing(w, g) == writer[w].pc \in {"del", "zadd", "expire"} /\ writer[w].tile = g

AsMembers(list) == {[Member |-> list[i].ArticleID, Score |-> list[i].Score] : i \in 1..Len(list)}

\* scorer.go:144-172: computeTileScore up to the key it is going to write; `list` is the
\* sorted slice trendingScores and `at` the reading of the clock the scores are made with.
BeginTile(w, g, evs, list) ==
    [writer EXCEPT ![w] = [@ EXCEPT !.pc = "del", !.tile = g, !.at = now, !.events = evs,
                                    !.list = list,
                                    !.target = AsMembers(list),
                                    !.before = zsets[TrendingKey(g, WriteLimit)],
                                    !.bad = FALSE]]

\* part_004:545-556 and part_005:60-67: an event is recorded at the current time under the
\* next id of the serial. The cycle remembered for comparison is forgotten: the next cycle
\* does not run over the same events.
RecordEvent(e) ==
    /\ now \in EventInstants
    /\ e.ID = Cardinality(userEvents) + 1
    /\ userEvents' = userEvents \cup {CreateUserEvent(e, now)}
    /\ lastCycle' = Nil
    /\ lateCycles' = lateCycles
    /\ UNCHANGED <<cacheVars, queryVars, limitVars, now, zsets, zttl, meta, loop, tick, tickerOn, doneClosed,
                   ctxDone, writer, running>>

\* Time passes; the keys whose TTL (keys.go:18, scorer.go:114 and 186) has run out are
\* gone.
AdvanceTime(t) ==
    /\ t > now
    /\ \A u \in Instants : ~(now < u /\ u < t)
    /\ now' = t
    /\ IF t - now >= TrendingTTL
         THEN /\ zsets' = [k \in TrendKeys |-> IF zttl[k] THEN {} ELSE zsets[k]]
              /\ zttl' = [k \in TrendKeys |-> FALSE]
              /\ meta' = Nil
         ELSE UNCHANGED <<zsets, zttl, meta>>
    /\ UNCHANGED <<cacheVars, queryVars, limitVars, userEvents, loop, tick, tickerOn,
                   doneClosed, ctxDone, writer, running, lastCycle, lateCycles>>

\* scorer.go:46-65: Start creates the ticker and starts the goroutine of the loop.
ScorerStart ==
    /\ loop = "off"
    /\ loop' = "select"
    /\ tickerOn' = TRUE
    /\ UNCHANGED <<cacheVars, queryVars, limitVars, now, userEvents, zsets, zttl, meta, tick, doneClosed,
                   ctxDone, writer, running, lastCycle, lateCycles>>

\* The process has not been ended by a panic.
Alive == loop # "panic"

\* A Stop that closes `done` and leaves the ticker running.
ScorerStopKeepsTicker ==
    /\ Alive
    /\ tickerOn' = tickerOn
    /\ IF doneClosed
         THEN /\ loop' = "panic"
              /\ running' = 0
              /\ writer' = [w \in Writers |-> IdleWriter]
              /\ UNCHANGED doneClosed
         ELSE /\ doneClosed' = TRUE
              /\ UNCHANGED <<loop, running, writer>>
    /\ UNCHANGED <<cacheVars, queryVars, limitVars, now, userEvents, zsets, zttl, meta, tick, ctxDone,
                   lastCycle, lateCycles>>

\* scorer.go:68-74: Stop stops the ticker and closes `done`. Closing a channel that is
\* closed already panics, and the panic, which nothing recovers, ends the process with
\* its goroutines; what is in Redis and in the database stays.
ScorerStop ==
    /\ Alive
    /\ tickerOn' = FALSE
    /\ IF doneClosed
         THEN /\ loop' = "panic"
              /\ running' = 0
              /\ writer' = [w \in Writers |-> IdleWriter]
              /\ UNCHANGED doneClosed
         ELSE /\ doneClosed' = TRUE
              /\ UNCHANGED <<loop, running, writer>>
    /\ UNCHANGED <<cacheVars, queryVars, limitVars, now, userEvents, zsets, zttl, meta, tick, ctxDone,
                   lastCycle, lateCycles>>

\* The context given to Start is cancelled.
Cancel ==
    /\ ~ctxDone
    /\ ctxDone' = TRUE
    /\ UNCHANGED <<cacheVars, queryVars, limitVars, now, userEvents, zsets, zttl, meta, loop, tick, tickerOn,
                   doneClosed, writer, running, lastCycle, lateCycles>>

\* The ticker sends a tick; a tick that finds the channel full is dropped.
TickerFire ==
    /\ tickerOn
    /\ ~tick
    /\ tick' = TRUE
    /\ UNCHANGED <<cacheVars, queryVars, limitVars, now, userEvents, zsets, zttl, meta, loop, tickerOn,
                   doneClosed, ctxDone, writer, running, lastCycle, lateCycles>>

\* A loop that hands each tick to a goroutine of its own and selects again at once.
LoopTickSpawn ==
    /\ loop \in {"select", "cycle"}
    /\ tick
    /\ NoOtherWriter("loop")
    /\ tick' = FALSE
    /\ loop' = "cycle"
    /\ running' = running + 1
    /\ writer' = [writer EXCEPT !["loop"] = [IdleWriter EXCEPT !.pc = "fetch"]]
    /\ lateCycles' = CountLate(lateCycles)
    /\ UNCHANGED <<cacheVars, queryVars, limitVars, now, userEvents, zsets, zttl, meta, tickerOn, doneClosed,
                   ctxDone, lastCycle>>

\* scorer.go:50-53: the select receives a tick and the loop calls computeAllTiles.
LoopTick ==
    /\ loop = "select"
    /\ tick
    /\ NoOtherWriter("loop")
    /\ tick' = FALSE
    /\ loop' = "cycle"
    /\ running' = running + 1
    /\ writer' = [writer EXCEPT !["loop"] = [IdleWriter EXCEPT !.pc = "fetch"]]
    /\ lateCycles' = CountLate(lateCycles)
    /\ UNCHANGED <<cacheVars, queryVars, limitVars, now, userEvents, zsets, zttl, meta, tickerOn, doneClosed,
                   ctxDone, lastCycle>>

\* scorer.go:56-59: the select finds `done` closed or the context cancelled.
LoopExit ==
    /\ loop = "select"
    /\ doneClosed \/ ctxDone
    /\ loop' = "exited"
    /\ UNCHANGED <<cacheVars, queryVars, limitVars, now, userEvents, zsets, zttl, meta, tick, tickerOn,
                   doneClosed, ctxDone, writer, running, lastCycle, lateCycles>>

\* scorer.go:53-55: computeAllTiles returns and the loop selects again; a cycle that
\* returned nil leaves the ids of the events it fetched and the score sets it wrote behind.
CycleEnd(evs, err) ==
    /\ loop' = "select"
    /\ running' = running - 1
    /\ writer' = [writer EXCEPT !["loop"] = IdleWriter]
    /\ lateCycles' = lateCycles
    /\ lastCycle' = IF err THEN lastCycle
                    ELSE Ptr([events |-> {e.ID : e \in evs}, wrote |-> writer["loop"].wrote])

\* scorer.go:77-93: the events of the last 24 hours are fetched and grouped.
CycleFetch(ok) ==
    /\ writer["loop"].pc = "fetch"
    /\ LET evs == GetRecentEventsByGeohash(userEvents, now - WindowMinutes)
       IN  IF ~Succeeds("loop", ok) THEN CycleEnd({}, TRUE)
           ELSE IF evs = {} THEN CycleEnd(evs, FALSE)
           ELSE /\ writer' = [writer EXCEPT !["loop"] =
                                 [@ EXCEPT !.pc = "tiles", !.fetched = evs,
                                           !.groups = groupEventsByTile(evs),
                                           !.todo = DOMAIN groupEventsByTile(evs)]]
                /\ UNCHANGED <<loop, running, lastCycle, lateCycles>>
    /\ UNCHANGED <<cacheVars, queryVars, limitVars, now, userEvents, zsets, zttl, meta, tick, tickerOn,
                   doneClosed, ctxDone>>

\* scorer.go:97-98 and 144-172: the range over the map hands out a tile that is still to
\* do, and computeTileScore scores and sorts its articles.
CyclePickTile(g) ==
    /\ writer["loop"].pc = "tiles"
    /\ g \in writer["loop"].todo
    /\ \E list \in trendingScores(writer["loop"].groups[g], now) :
          writer' = BeginTile("loop", g, writer["loop"].groups[g], list)
    /\ UNCHANGED <<cacheVars, queryVars, limitVars, now, userEvents, zsets, zttl, meta, loop, tick, tickerOn,
                   doneClosed, ctxDone, running, lastCycle, lateCycles>>

\* A Del that empties the score set of every tile.
TileDelAll(w, ok) ==
    /\ writer[w].pc = "del"
    /\ zsets' = [k \in DOMAIN zsets |-> {}]
    /\ zttl' = [k \in DOMAIN zttl |-> FALSE]
    /\ writer' = [writer EXCEPT ![w].pc = "zadd"]
    /\ UNCHANGED <<cacheVars, queryVars, limitVars, now, userEvents, meta, loop, tick, tickerOn, doneClosed,
                   ctxDone, running, lastCycle, lateCycles>>

\* scorer.go:174-175: Del of the tile's key; its error is dropped.
TileDel(w, ok) ==
    /\ writer[w].pc = "del"
    /\ LET k == TrendingKey(writer[w].tile, WriteLimit)
       IN  IF Succeeds(w, ok)
             THEN /\ zsets' = [zsets EXCEPT ![k] = {}]
                  /\ zttl' = [zttl EXCEPT ![k] = FALSE]
                  /\ writer' = [writer EXCEPT ![w].pc = "zadd"]
             ELSE /\ writer' = [writer EXCEPT ![w].pc = "zadd", ![w].bad = TRUE]
                  /\ UNCHANGED <<zsets, zttl>>
    /\ UNCHANGED <<cacheVars, queryVars, limitVars, now, userEvents, meta, loop, tick, tickerOn, doneClosed,
                   ctxDone, running, lastCycle, lateCycles>>

\* scorer.go:177-183: one ZAdd of the loop over trendingScores; its error is dropped.
TileZAdd(w, ok) ==
    /\ writer[w].pc = "zadd"
    /\ LET k == TrendingKey(writer[w].tile, WriteLimit)
           z == [Member |-> Head(writer[w].list).ArticleID, Score |-> Head(writer[w].list).Score]
           rest == Tail(writer[w].list)
       IN  /\ zsets' = IF Succeeds(w, ok) THEN [zsets EXCEPT ![k] = ZAdd(@, z)] ELSE zsets
           /\ writer' = [writer EXCEPT ![w].list = rest,
                                       ![w].pc = IF rest = <<>> THEN "expire" ELSE "zadd",
                                       ![w].bad = @ \/ ~Succeeds(w, ok)]
    /\ UNCHANGED <<cacheVars, queryVars, limitVars, now, userEvents, zttl, meta, loop, tick, tickerOn,
                   doneClosed, ctxDone, running, lastCycle, lateCycles>>

\* scorer.go:185-194 and 98-102: Expire puts the TTL on the key (its error is dropped) and
\* computeTileScore returns nil; the cycle counts the tile. `after` keeps what the key
\* held at the return.
TileExpire(w, ok) ==
    /\ writer[w].pc = "expire"
    /\ LET g == writer[w].tile
           k == TrendingKey(g, WriteLimit)
           bad == writer[w].bad \/ ~Succeeds(w, ok)
       IN  /\ zttl' = IF Succeeds(w, ok) /\ zsets[k] # {} THEN [zttl EXCEPT ![k] = TRUE] ELSE zttl
           /\ writer' = IF w = "loop"
                          THEN [writer EXCEPT ![w].pc = "tiles",
                                              ![w].after = zsets[k],
                                              ![w].bad = bad,
                                              ![w].todo = @ \ {g},
                                              ![w].tileCount = @ + 1,
                                              ![w].failed = IF bad THEN @ \cup {g} ELSE @,
                                              ![w].wrote = @ \cup {<<g, writer[w].target, writer[w].at>>}]
                          ELSE [writer EXCEPT ![w].pc = "idle",
                                              ![w].before = {},
                                              ![w].after = zsets[k],
                                              ![w].bad = bad]
    /\ UNCHANGED <<cacheVars, queryVars, limitVars, now, userEvents, zsets, meta, loop, tick, tickerOn,
                   doneClosed, ctxDone, running, lastCycle, lateCycles>>

\* scorer.go:105-123: after the last tile the metadata is written (the error of Set is
\* dropped) and computeAllTiles returns nil.
CycleMeta(ok) ==
    /\ writer["loop"].pc = "tiles"
    /\ writer["loop"].todo = {}
    /\ LET written == Succeeds("loop", ok)
           trendingMeta == [LastComputedAt |-> now,
                            EventCount |-> Cardinality(writer["loop"].fetched),
                            TileCount |-> writer["loop"].tileCount]
       IN  /\ meta' = IF written THEN Ptr(trendingMeta) ELSE meta
           /\ CycleEnd(writer["loop"].fetched, FALSE)
    /\ UNCHANGED <<cacheVars, queryVars, limitVars, now, userEvents, zsets, zttl, tick, tickerOn, doneClosed,
                   ctxDone>>

\* scorer.go:333-347: ForceRecompute fetches and groups the events and computes the tile
\* of the coordinates; with no event in the tile computeTileScore returns at once
\* (scorer.go:145-147).
ForceRecompute(spot, ok) ==
    /\ Alive
    /\ writer["force"].pc = "idle"
    /\ NoOtherWriter("force")
    /\ LET g == GenerateGeohash(spot.lat, spot.lon, GeohashPrecision)
           groups == groupEventsByTile(GetRecentEventsByGeohash(userEvents, now - WindowMinutes))
           evs == EventsOfTile(groups, g)
       IN  IF ~ok THEN writer' = [writer EXCEPT !["force"] = IdleWriter]
           ELSE IF evs = {}
             THEN writer' = [writer EXCEPT !["force"] =
                                [IdleWriter EXCEPT !.tile = g,
                                                   !.after = zsets[TrendingKey(g, WriteLimit)]]]
             ELSE \E list \in trendingScores(evs, now) :
                     writer' = BeginTile("force", g, evs, list)
    /\ UNCHANGED <<cacheVars, queryVars, limitVars, now, userEvents, zsets, zttl, meta, loop, tick, tickerOn,
                   doneClosed, ctxDone, running, lastCycle, lateCycles>>

\* scorer.go:308-330: GetTrendingScores issues one command that changes nothing: the
\* first `limit` members, in descending order, of the key that carries the tile and the
\* limit. Its answer is a function of the state it is called in.
GetTrendingScores(geohash, limit) ==
    ToTrendingScores(ZRevRangeWithScores(zsets[TrendingKey(geohash, limit)], limit - 1))

\* The steps of the scorer and its surroundings; oks are the outcomes a call may have.
TrendStep(oks) ==
    \/ \E e \in EventPool : RecordEvent(e)
    \/ \E t \in Instants : AdvanceTime(t)
    \/ ScorerStart
    \/ ScorerStop
    \/ TickerFire
    \/ LoopTick
    \/ LoopExit
    \/ \E ok \in oks : CycleFetch(ok)
    \/ \E g \in Tiles : CyclePickTile(g)
    \/ \E w \in Writers, ok \in oks : TileDel(w, ok)
    \/ \E w \in Writers, ok \in oks : TileZAdd(w, ok)
    \/ \E w \in Writers, ok \in oks : TileExpire(w, ok)
    \/ \E ok \in oks : CycleMeta(ok)
    \/ \E spot \in {SpotA, SpotB}, ok \in oks : ForceRecompute(spot, ok)

\* The background loop while Redis and the repository may fail and the context may be
\* cancelled.
TrendNext ==
    \/ \E e \in EventPool : RecordEvent(e)
    \/ ScorerStart
    \/ TickerFire
    \/ LoopTick
    \/ LoopExit
    \/ Cancel
    \/ \E ok \in BOOLEAN : CycleFetch(ok)
    \/ \E g \in Tiles : CyclePickTile(g)
    \/ \E ok \in BOOLEAN : TileDel("loop", ok)
    \/ \E ok \in BOOLEAN : TileZAdd("loop", ok)
    \/ \E ok \in BOOLEAN : TileExpire("loop", ok)
    \/ \E ok \in BOOLEAN : CycleMeta(ok)

\* No call fails and the context is not cancelled.
TrendNextNoFault == TrendStep({TRUE})

-----------------------------------------------------------------------------
(* The rate limiter: RateLimit and SimpleRateLimiter.Allow, one action per   *)
(* access to the map rl.clients or to the fields of a clientLimit.           *)

\* The locals of h when Allow has returned and RateLimit has answered with `out`.
Answered429OrNext(h, out) == [IdleHandler EXCEPT !.pc = "done", !.ip = handler[h].ip, !.out = out]

\* The clientLimit the `client` of h points to.
LimitOf(h) ==
    IF handler[h].client.shared THEN clients[handler[h].ip][1]
    ELSE [tokens |-> handler[h].client.tokens, lastRefill |-> handler[h].client.lastRefill]

\* ratelimit.go:36-41 and 120: a request arrives, RateLimit calls Allow and Allow reads
\* the clock.
RateLimitRequest(h, ip) ==
    /\ handler[h].pc = "idle"
    /\ handler' = [handler EXCEPT ![h] = [IdleHandler EXCEPT !.pc = "lookup", !.ip = ip,
                                                            !.now = rlNow]]
    /\ UNCHANGED <<cacheVars, queryVars, trendVars, rlNow, clients>>

\* ratelimit.go:123-124: the lookup in the map.
AllowLookup(h) ==
    /\ handler[h].pc = "lookup"
    /\ handler' = IF clients[handler[h].ip] # Nil
                    THEN [handler EXCEPT ![h].pc = "refill", ![h].client = SharedClient]
                    ELSE [handler EXCEPT ![h].pc = "insert"]
    /\ UNCHANGED <<cacheVars, queryVars, trendVars, rlNow, clients>>

\* ratelimit.go:125-130: a new clientLimit with a full bucket is put into the map; a
\* goroutine that got the earlier clientLimit of the address keeps its pointer to it.
AllowInsert(h) ==
    /\ handler[h].pc = "insert"
    /\ LET ip == handler[h].ip
       IN  /\ clients' = [clients EXCEPT ![ip] =
                             Ptr([tokens |-> BurstSize, lastRefill |-> handler[h].now])]
           /\ handler' = [g \in Handlers |->
                            IF g = h
                              THEN [handler[h] EXCEPT !.pc = "refill", !.client = SharedClient]
                            ELSE IF handler[g].ip = ip /\ handler[g].client.shared
                              THEN [handler[g] EXCEPT !.client = OwnClient(clients[ip][1])]
                            ELSE handler[g]]
    /\ UNCHANGED <<cacheVars, queryVars, trendVars, rlNow>>

\* int(timePassed.Minutes() * float64(rl.requestsPerMinute)), ratelimit.go:134-135.
TokensToAdd(from, to) ==
    IF to <= from THEN 0 ELSE ((to - from) * RequestsPerMinute) \div 60

\* The fields of the clientLimit of h are written.
StoreLimit(h, limit) ==
    IF handler[h].client.shared
      THEN /\ clients' = [clients EXCEPT ![handler[h].ip] = Ptr(limit)]
           /\ handler' = [handler EXCEPT ![h].pc = "check", ![h].now = 0]
      ELSE /\ handler' = [handler EXCEPT ![h].pc = "check", ![h].now = 0,
                                         ![h].client = OwnClient(limit)]
           /\ UNCHANGED clients

\* ratelimit.go:133-140: the refill.
AllowRefill(h) ==
    /\ handler[h].pc = "refill"
    /\ LET limit == LimitOf(h)
           tokensToAdd == TokensToAdd(limit.lastRefill, handler[h].now)
       IN  IF tokensToAdd > 0
             THEN StoreLimit(h, [tokens |-> Min(limit.tokens + tokensToAdd, BurstSize),
                                 lastRefill |-> handler[h].now])
             ELSE /\ handler' = [handler EXCEPT ![h].pc = "check", ![h].now = 0]
                  /\ UNCHANGED clients
    /\ UNCHANGED <<cacheVars, queryVars, trendVars, rlNow>>

\* A test that lets a request pass when the bucket is empty (>= for >).
AllowCheckAtZero(h) ==
    /\ handler[h].pc = "check"
    /\ handler' = IF LimitOf(h).tokens >= 0
                    THEN [handler EXCEPT ![h].pc = "take", ![h].seen = LimitOf(h).tokens]
                    ELSE [handler EXCEPT ![h] = Answered429OrNext(h, "429")]
    /\ UNCHANGED <<cacheVars, queryVars, trendVars, rlNow, clients>>

\* ratelimit.go:143 and 148, 41-62: the test of the tokens; without a token Allow returns
\* false and RateLimit answers 429 without calling the next handler.
AllowCheck(h) ==
    /\ handler[h].pc = "check"
    /\ handler' = IF LimitOf(h).tokens > 0
                    THEN [handler EXCEPT ![h].pc = "take", ![h].seen = LimitOf(h).tokens]
                    ELSE [handler EXCEPT ![h] = Answered429OrNext(h, "429")]
    /\ UNCHANGED <<cacheVars, queryVars, trendVars, rlNow, clients>>

\* ratelimit.go:144-145 and 65: client.tokens--, Allow returns true and RateLimit calls the
\* next handler. The decrement is not atomic: it writes one less than the count it read,
\* which is the count of the test or the count of this moment.
AllowTake(h) ==
    /\ handler[h].pc = "take"
    /\ \E read \in {handler[h].seen, LimitOf(h).tokens} :
          LET limit == [LimitOf(h) EXCEPT !.tokens = read - 1]
          IN  IF handler[h].client.shared
                THEN clients' = [clients EXCEPT ![handler[h].ip] = Ptr(limit)]
                ELSE UNCHANGED clients
    /\ handler' = [handler EXCEPT ![h] = Answered429OrNext(h, "next")]
    /\ UNCHANGED <<cacheVars, queryVars, trendVars, rlNow>>

\* The request has been answered.
HandlerReturn(h) ==
    /\ handler[h].pc = "done"
    /\ handler' = [handler EXCEPT ![h] = IdleHandler]
    /\ UNCHANGED <<cacheVars, queryVars, trendVars, rlNow, clients>>

\* A second passes.
LimitTick ==
    /\ rlNow < MaxSeconds
    /\ rlNow' = rlNow + 1
    /\ UNCHANGED <<cacheVars, queryVars, trendVars, clients, handler>>

\* The accesses goroutine h makes next: the memory it touches and whether it writes.
Accesses(h) ==
    LET limit == IF handler[h].client.shared THEN <<"clientLimit", handler[h].ip>>
                 ELSE <<"clientLimit", h>>
    IN  CASE handler[h].pc = "lookup" -> {<<"rl.clients", FALSE>>}
          [] handler[h].pc = "insert" -> {<<"rl.clients", TRUE>>}
          [] handler[h].pc = "refill" -> {<<limit, FALSE>>, <<limit, TRUE>>}
          [] handler[h].pc = "check" -> {<<limit, FALSE>>}
          [] handler[h].pc = "take" -> {<<limit, FALSE>>, <<limit, TRUE>>}
          [] OTHER -> {}

\* Two goroutines are about to access the same memory, one of them writing, and nothing
\* orders the two accesses.
DataRace ==
    \E h, g \in Handlers :
        /\ h # g
        /\ \E a \in Accesses(h), b \in Accesses(g) : a[1] = b[1] /\ (a[2] \/ b[2])

\* The runtime finds the map being written while another goroutine uses it and ends the
\* process ("fatal error: concurrent map writes").
ConcurrentMapFault ==
    /\ \E h, g \in Handlers :
          /\ h # g
          /\ handler[h].pc = "insert"
          /\ handler[g].pc \in {"lookup", "insert"}
    /\ handler' = [h \in Handlers |-> [IdleHandler EXCEPT !.pc = "fatal"]]
    /\ UNCHANGED <<cacheVars, queryVars, trendVars, rlNow, clients>>

\* The request goroutines run concurrently, within one second.
LimitNextRace ==
    \/ \E h \in Handlers, ip \in ClientIPs : RateLimitRequest(h, ip)
    \/ \E h \in Handlers : AllowLookup(h)
    \/ \E h \in Handlers : AllowInsert(h)
    \/ \E h \in Handlers : AllowRefill(h)
    \/ \E h \in Handlers : AllowCheck(h)
    \/ \E h \in Handlers : AllowTake(h)
    \/ \E h \in Handlers : HandlerReturn(h)
    \/ ConcurrentMapFault

\* A request arrives when no other request is being served.
SequentialRequest(h, ip) ==
    /\ \A g \in Handlers : handler[g].pc = "idle"
    /\ RateLimitRequest(h, ip)

\* The requests are served one at a time while the seconds pass.
LimitNext ==
    \/ \E h \in Handlers, ip \in ClientIPs : SequentialRequest(h, ip)
    \/ \E h \in Handlers : AllowLookup(h)
    \/ \E h \in Handlers : AllowInsert(h)
    \/ \E h \in Handlers : AllowRefill(h)
    \/ \E h \in Handlers : AllowCheck(h)
    \/ \E h \in Handlers : AllowTake(h)
    \/ \E h \in Handlers : HandlerReturn(h)
    \/ LimitTick

-----------------------------------------------------------------------------
(* The repository filled by CreateArticle calls and read between them.     *)

\* Second versions of articles of the pool: the same identifier with another source,
\* another category and a lower score.
Replacements ==
    {[ID |-> "a1", Title |-> <<"c", "u", "p", " ", "f", "i", "n", "a", "l">>, Description |-> Nil, PublicationDate |-> 4,
      SourceName |-> <<"S", "p", "a", "c", "e", "N", "e", "w", "s">>, Category |-> <<<<"S", "p", "o", "r", "t", "s">>>>, RelevanceScore |-> 700,
      Latitude |-> Nil, Longitude |-> Nil],
     [ID |-> "a2", Title |-> <<"n", "e", "w", " ", "p", "h", "o", "n", "e">>, Description |-> Nil, PublicationDate |-> 5,
      SourceName |-> <<"T", "e", "c", "h", "N", "e", "w", "s">>, Category |-> <<<<"T", "e", "c", "h", "n", "o", "l", "o", "g", "y">>>>, RelevanceScore |-> 600,
      Latitude |-> Nil, Longitude |-> Nil]}

\* Query texts of the score strategy.
ScoreTexts ==
    {<<"s", "c", "o", "r", "e", " ", "a", "b", "o", "v", "e", " ", "0", ".", "9">>,
     <<"a", "b", "o", "v", "e", " ", "0", ".", "8", "5", "0", "0", "0", "0", "4">>,
     <<"t", "o", "p", " ", "5", " ", "a", "b", "o", "v", "e", " ", "0", ".", "9">>,
     <<"r", "e", "l", "e", "v", "a", "n", "c", "e">>,
     <<"t", "h", "r", "e", "s", "h", "o", "l", "d", " ", "0", ".", "8", "5">>}

ScoreRequests ==
    {[Query |-> q, Lat |-> Nil, Lon |-> Nil, Radius |-> Nil, Limit |-> l] :
        q \in ScoreTexts, l \in {1, DefaultLimit}}

\* openai.go:92-132: the keywords of each source and the name appended for it.
SourceDetections ==
    <<<<{<<"n", "e", "w", " ", "y", "o", "r", "k", " ", "t", "i", "m", "e", "s">>, <<"n", "y", "t">>}, <<"N", "e", "w", " ", "Y", "o", "r", "k", " ", "T", "i", "m", "e", "s">>>>,
      <<{<<"r", "e", "u", "t", "e", "r", "s">>}, <<"R", "e", "u", "t", "e", "r", "s">>>>,
      <<{<<"b", "b", "c">>}, <<"B", "B", "C">>>>,
      <<{<<"c", "n", "n">>}, <<"C", "N", "N">>>>,
      <<{<<"d", "w">>}, <<"D", "W">>>>,
      <<{<<"t", "e", "c", "h", "n", "e", "w", "s">>}, <<"T", "e", "c", "h", "N", "e", "w", "s">>>>,
      <<{<<"s", "p", "a", "c", "e", "n", "e", "w", "s">>}, <<"S", "p", "a", "c", "e", "N", "e", "w", "s">>>>,
      <<{<<"f", "i", "n", "a", "n", "c", "e", "d", "a", "i", "l", "y">>}, <<"F", "i", "n", "a", "n", "c", "e", "D", "a", "i", "l", "y">>>>,
      <<{<<"h", "e", "a", "l", "t", "h", "s", "c", "i", "e", "n", "c", "e">>}, <<"H", "e", "a", "l", "t", "h", "S", "c", "i", "e", "n", "c", "e">>>>,
      <<{<<"g", "l", "o", "b", "a", "l", "n", "e", "w", "s">>}, <<"G", "l", "o", "b", "a", "l", "N", "e", "w", "s">>>>>>

\* openai.go:92-132: the source names Extract appends for a lower-cased query.
ExtractSourceNames(queryLower) ==
    LET hits == SelectSeq(SourceDetections, LAMBDA row : \E k \in row[1] : Contains(queryLower, k))
    IN  [i \in 1..Len(hits) |-> hits[i][2]]

\* openai.go:36-185: Extract on a query in which no keyword other than those of the
\* sources occurs: one source intent of confidence 0.9 for each name, and the search
\* intent of confidence 0.7 when there is none.
ExtractSourceQuery(query) ==
    LET names == ExtractSourceNames(ToLower(query))
    IN  [NoExtraction EXCEPT
            !.SourceNames = names,
            !.Intent = IF names = <<>> THEN <<[Type |-> L_search, Confidence |-> 7]>>
                       ELSE [i \in 1..Len(names) |-> [Type |-> L_source, Confidence |-> 9]]]

\* Query texts that name one source and hold no other keyword of Extract.
SourceTexts == {<<"S", "p", "a", "c", "e", "N", "e", "w", "s">>, <<"B", "B", "C">>, <<"R", "e", "u", "t", "e", "r", "s">>}

SourceRequests ==
    {[Query |-> q, Lat |-> Nil, Lon |-> Nil, Radius |-> Nil, Limit |-> l] :
        q \in SourceTexts, l \in {1, DefaultLimit}}

StoreInit ==
    /\ CacheInit
    /\ QueryIdle
    /\ TrendIdle
    /\ LimitIdle
    /\ store \in {EmptyStore("redis"), EmptyStore("memory")}

\* part_002 and part_004:179-234: one CreateArticle call; what an earlier read returned is
\* forgotten.
StoreCreate(article) ==
    /\ store' = CreateArticle(store, article)
    /\ qpc' = "idle"
    /\ req' = ZeroRequest
    /\ strategy' = ""
    /\ storeCall' = Nil
    /\ articles' = <<>>
    /\ extraction' = NoExtraction
    /\ UNCHANGED <<cacheVars, trendVars, limitVars, via, redisOps, pending, summaries,
                   summarizeCalls, delivered, ranked, response, httpStatus, httpBody>>

\* client.go:330-358: getArticlesByScore on the current repository.
StoreReadByScore(rq, order) ==
    /\ req' = rq
    /\ strategy' = "score"
    /\ storeCall' = Ptr(StoreCallOf("score", NoExtraction, rq))
    /\ articles' = getArticlesByScore(NoExtraction, rq, store, order)
    /\ qpc' = "retrieved"
    /\ extraction' = NoExtraction
    /\ UNCHANGED <<cacheVars, trendVars, limitVars, via, store, redisOps, pending, summaries,
                   summarizeCalls, delivered, ranked, response, httpStatus, httpBody>>

\* client.go:123-136 and 305-327: Extract, determineStrategy and getArticlesBySource for
\* a query that resolves to the source strategy.
StoreReadBySource(rq, order) ==
    /\ determineStrategy(ExtractSourceQuery(rq.Query), rq) = "source"
    /\ req' = rq
    /\ extraction' = ExtractSourceQuery(rq.Query)
    /\ strategy' = "source"
    /\ storeCall' = Ptr(StoreCallOf("source", ExtractSourceQuery(rq.Query), rq))
    /\ articles' = getArticlesBySource(ExtractSourceQuery(rq.Query), rq, store, order)
    /\ qpc' = "retrieved"
    /\ UNCHANGED <<cacheVars, trendVars, limitVars, via, store, redisOps, pending, summaries,
                   summarizeCalls, delivered, ranked, response, httpStatus, httpBody>>

\* The names category retrievals are made with.
CategoryNames == {<<"t", "e", "c", "h", "n", "o", "l", "o", "g", "y">>, <<"T", "e", "c", "h">>, <<"S", "p", "o", "r", "t", "s">>}

\* part_004:260-298: GetArticlesByCategory on the current repository; the name and the
\* limit of the call are kept in the request.
StoreReadByCategory(name, limit, order) ==
    /\ req' = [ZeroRequest EXCEPT !.Query = name, !.Limit = limit]
    /\ strategy' = "category"
    /\ storeCall' = Ptr([op |-> "GetArticlesByCategory", name |-> name, limit |-> limit])
    /\ articles' = convertToDTOs(store, GetArticlesByCategory(store, name, limit, order))
    /\ qpc' = "retrieved"
    /\ extraction' = NoExtraction
    /\ UNCHANGED <<cacheVars, trendVars, limitVars, via, store, redisOps, pending, summaries,
                   summarizeCalls, delivered, ranked, response, httpStatus, httpBody>>

StoreNext ==
    \/ \E article \in ArticlePool \cup Replacements : StoreCreate(article)
    \/ \E rq \in ScoreRequests, order \in Orders : StoreReadByScore(rq, order)
    \/ \E rq \in SourceRequests, order \in Orders : StoreReadBySource(rq, order)
    \/ \E name \in CategoryNames, limit \in {1, DefaultLimit}, order \in Orders :
          StoreReadByCategory(name, limit, order)

-----------------------------------------------------------------------------
(* The Ranker alone (NewsService.rankArticles, nearby).                     *)

\* client.go:111: DistanceMeters is a *float64; the distances of the lists, in metres.
RankerDistances == {Nil, Ptr(100), Ptr(200)}

\* The lists of DTOs of distinct articles of the pool, each with or without a distance.
RankerInputs ==
    UNION {{[i \in 1..n |-> [convertToDTO(PoolArticle(ids[i])) EXCEPT !.DistanceMeters = ds[i]]] :
               ids \in {o \in [1..n -> IdSet] : \A i, j \in 1..n : o[i] = o[j] => i = j},
               ds \in [1..n -> RankerDistances]} : n \in 0..Len(ArticleIds)}

\* Query has enriched the list and is about to call rankArticles (client.go:160).
RankerInit ==
    /\ CacheInit
    /\ TrendIdle
    /\ LimitIdle
    /\ qpc = "rank"
    /\ via = "none"
    /\ req = [ZeroRequest EXCEPT !.Limit = DefaultLimit]
    /\ extraction = NoExtraction
    /\ strategy = "nearby"
    /\ store \in {CreateAll(EmptyStore("memory"), ArticlePool)}
    /\ storeCall = Nil
    /\ redisOps = <<>>
    /\ articles \in RankerInputs
    /\ pending = {}
    /\ summaries = <<>>
    /\ summarizeCalls = 0
    /\ delivered = {}
    /\ ranked = Nil
    /\ response = <<>>
    /\ httpStatus = 0
    /\ httpBody = <<>>

RankerNext == Rank

-----------------------------------------------------------------------------
(* The scoring of recorded events *)

\* The moment of the computations, two hours after the first events.
ScoringTime == 120

\* The rows of user_events the computations may find: three kinds of event, users in two
\* tiles and one without coordinates, and an article without a location.
ScoringRows ==
    {[ID |-> 1, ArticleID |-> "a1", Event |-> "click", OccurredAt |-> 0,
      UserLat |-> Ptr(SpotA.lat), UserLon |-> Ptr(SpotA.lon)],
     [ID |-> 2, ArticleID |-> "a1", Event |-> "view", OccurredAt |-> 60,
      UserLat |-> Ptr(SpotA.lat), UserLon |-> Ptr(SpotA.lon)],
     [ID |-> 3, ArticleID |-> "a1", Event |-> "share", OccurredAt |-> 0,
      UserLat |-> Ptr(SpotA.lat), UserLon |-> Ptr(SpotA.lon)],
     [ID |-> 4, ArticleID |-> "a2", Event |-> "click", OccurredAt |-> 0,
      UserLat |-> Nil, UserLon |-> Nil],
     [ID |-> 5, ArticleID |-> "a2", Event |-> "view", OccurredAt |-> 0,
      UserLat |-> Ptr(SpotB.lat), UserLon |-> Ptr(SpotB.lon)],
     [ID |-> 6, ArticleID |-> "a3", Event |-> "click", OccurredAt |-> 60,
      UserLat |-> Ptr(SpotA.lat), UserLon |-> Ptr(SpotA.lon)]}

\* The scorer has been started (scorer.go:46-65) over a table of recorded events.
ScoringInit ==
    /\ CacheInit
    /\ QueryIdle
    /\ LimitIdle
    /\ store \in {CreateAll(EmptyStore("redis"), ArticlePool)}
    /\ now = ScoringTime
    /\ userEvents \in SUBSET ScoringRows
    /\ zsets = [k \in TrendKeys |-> {}]
    /\ zttl = [k \in TrendKeys |-> FALSE]
    /\ meta = Nil
    /\ loop = "select"
    /\ tick = FALSE
    /\ tickerOn = TRUE
    /\ doneClosed = FALSE
    /\ ctxDone = FALSE
    /\ writer = [w \in Writers |-> IdleWriter]
    /\ running = 0
    /\ lastCycle = Nil
    /\ lateCycles = NoLateCycles

\* The cycles of the loop and the calls of ForceRecompute; the commands that write the
\* sorted sets may fail.
ScoringNext ==
    \/ TickerFire
    \/ LoopTick
    \/ CycleFetch(TRUE)
    \/ \E g \in Tiles : CyclePickTile(g)
    \/ \E w \in Writers, ok \in BOOLEAN : TileDel(w, ok)
    \/ \E w \in Writers, ok \in BOOLEAN : TileZAdd(w, ok)
    \/ \E w \in Writers : TileExpire(w, TRUE)
    \/ CycleMeta(TRUE)
    \/ \E spot \in {SpotA, SpotB} : ForceRecompute(spot, TRUE)

-----------------------------------------------------------------------------
(* The shutdown of the background loop *)

\* scorer.go:46-65: Start has created the ticker and started the goroutine of the loop,
\* over no recorded event or over the events of the pool.
ShutdownInit ==
    /\ CacheInit
    /\ QueryIdle
    /\ LimitIdle
    /\ store \in {CreateAll(EmptyStore("redis"), ArticlePool)}
    /\ now = 0
    /\ userEvents \in {{}, {CreateUserEvent(e, 0) : e \in EventPool}}
    /\ zsets = [k \in TrendKeys |-> {}]
    /\ zttl = [k \in TrendKeys |-> FALSE]
    /\ meta = Nil
    /\ loop = "select"
    /\ tick = FALSE
    /\ tickerOn = TRUE
    /\ doneClosed = FALSE
    /\ ctxDone = FALSE
    /\ writer = [w \in Writers |-> IdleWriter]
    /\ running = 0
    /\ lastCycle = Nil
    /\ lateCycles = NoLateCycles

\* Stop, the cancellation, the ticker and the cycles of the loop, whose calls may fail.
ShutdownNext ==
    \/ ScorerStop
    \/ Cancel
    \/ TickerFire
    \/ LoopTick
    \/ LoopExit
    \/ \E ok \in BOOLEAN : CycleFetch(ok)
    \/ \E g \in Tiles : CyclePickTile(g)
    \/ \E ok \in BOOLEAN : TileDel("loop", ok)
    \/ \E ok \in BOOLEAN : TileZAdd("loop", ok)
    \/ \E ok \in BOOLEAN : TileExpire("loop", ok)
    \/ \E ok \in BOOLEAN : CycleMeta(ok)

\* scorer.go:52-55: a step of the computeAllTiles call the loop is in.
CycleStep ==
    \/ \E ok \in BOOLEAN : CycleFetch(ok)
    \/ \E g \in Tiles : CyclePickTile(g)
    \/ \E ok \in BOOLEAN : TileDel("loop", ok)
    \/ \E ok \in BOOLEAN : TileZAdd("loop", ok)
    \/ \E ok \in BOOLEAN : TileExpire("loop", ok)
    \/ \E ok \in BOOLEAN : CycleMeta(ok)

\* The calls of a cycle return, so a cycle that has begun goes on (weak fairness); a
\* select that finds several cases ready picks one of them at random, so a loop that
\* comes to the select again and again with `done` closed or the context cancelled takes
\* that case at some time (strong fairness).
ShutdownFairness == WF_vars(CycleStep) /\ SF_vars(LoopExit)

-----------------------------------------------------------------------------
(* The specifications *)

\* The cache layer alone: no request is being served.
Init ==
    /\ CacheInit
    /\ QueryIdle
    /\ TrendIdle
    /\ LimitIdle
    /\ store \in {CreateAll(EmptyStore("redis"), ArticlePool)}

SpecCache == Init /\ [][CacheNext]_vars

SpecCacheRace == Init /\ [][CacheNextRace]_vars

SpecCacheNoFault == Init /\ [][CacheNextNoFault]_vars

Spec == SpecCache

\* A request is served while no GetOrSet call is running (NewsService makes none).
SpecQuery == QueryInit /\ [][QueryNext]_vars

StrategyNext == DetermineStrategy

SpecStrategy == StrategyInit /\ [][StrategyNext]_vars

\* The trending scorer: its background loop with failing calls and cancellation, and the
\* loop, ForceRecompute and the passing of time without them.
SpecTrending == Init /\ [][TrendNext]_vars

SpecTrendingNoFault == Init /\ [][TrendNextNoFault]_vars

\* The rate limiter with one Allow call at a time.
SpecLimiter == Init /\ [][LimitNext]_vars

\* The rate limiter with the request goroutines running concurrently.
SpecLimiterRace == Init /\ [][LimitNextRace]_vars

\* The repository while the loader fills it, read through the score and source strategies.
SpecStore == StoreInit /\ [][StoreNext]_vars

\* rankArticles alone, on lists whose entries have a distance or lack one.
SpecRanker == RankerInit /\ [][RankerNext]_vars

\* The background loop with Stop and the cancellation, under fair scheduling.
SpecShutdown == ShutdownInit /\ [][ShutdownNext]_vars /\ ShutdownFairness

\* The scorer over tables of recorded events of every kind.
SpecScoring == ScoringInit /\ [][ScoringNext]_vars

-----------------------------------------------------------------------------
(* Claims about the cache layer *)

\* C1: when the callers call GetOrSet on the same absent key concurrently, fn() is
\* executed at most once in total, and every caller that has returned got the produced
\* value or the timeout error.
C1_ProducerRunsAtMostOnce ==
    /\ fnRuns <= 1
    /\ \A c \in Callers : pc[c] = "done" => ret[c] \in Values \cup {ErrTimeout}
    /\ \A c, d \in Callers :
         (pc[c] = "done" /\ pc[d] = "done" /\ ret[c] \in Values /\ ret[d] \in Values)
            => ret[c] = ret[d]

\* C2: while one caller holds an unexpired lock and is executing the producer, no other
\* caller begins executing the producer.
C2_NoSecondProducerWhileLockHeld ==
    [][\A c \in Procs :
         (held[c] /\ pc[c] = "producing")
            => \A d \in Procs \ {c} : ~(pc[d] # "producing" /\ pc'[d] = "producing")]_vars

\* C3: a caller whose SetNX answered "not acquired" never executes the producer and never
\* goes back to SetNX; it polls at most MaxPolls (50) times, a poll that reads a value
\* returns that value, a poll that reads none counts one more miss, the timeout error is
\* returned exactly on the 50th miss, and a poll is never blocked.
C3_WaiterState ==
    \A c \in Callers :
        lockFailed[c] =>
            /\ ~ranFn[c]
            /\ pc[c] \in {"poll", "done"}
            /\ pc[c] = "poll" => (polls[c] < MaxPolls /\ ENABLED Poll(c, TRUE))
            /\ pc[c] = "done" => ret[c] \in Values \cup {ErrTimeout}
            /\ ret[c] = ErrTimeout <=> (pc[c] = "done" /\ polls[c] = MaxPolls)

C3_WaiterStep ==
    \A c \in Callers :
        (lockFailed[c] /\ pc[c] = "poll" /\ <<pc[c], polls[c], ret[c]>>' # <<pc[c], polls[c], ret[c]>>)
            => \/ /\ cacheVal # NoVal
                  /\ pc'[c] = "done"
                  /\ ret'[c] = cacheVal
               \/ /\ polls'[c] = polls[c] + 1
                  /\ IF polls'[c] < MaxPolls
                       THEN pc'[c] = "poll" /\ ret'[c] = NoRet
                       ELSE pc'[c] = "done" /\ ret'[c] = ErrTimeout

C3_WaiterPollsBoundedThenTimesOut == [](C3_WaiterState) /\ [][C3_WaiterStep]_vars

\* A waiter has missed 50 times and returned the timeout error.
C3_Witness == \E c \in Callers : lockFailed[c] /\ pc[c] = "done" /\ ret[c] = ErrTimeout

-----------------------------------------------------------------------------
(* Claims about the query path *)

\* C4: each retrieval operation reads the cache under its strategy key before it queries
\* the article store: when the store has been queried, a Redis command on a key with the
\* strategy's cache prefix has been issued.
C4_CacheReadBeforeStore ==
    storeCall # Nil =>
        \E i \in 1..Len(redisOps) : redisOps[i].prefix = StrategyKeyPrefix(strategy)

BothCoordinates == req.Lat # Nil /\ req.Lon # Nil

\* C5: for every extraction and every request with both lat and lon, determineStrategy
\* returns nearby, whatever the intents, categories and source names are.
C5_CoordinatesSelectNearby == (qpc = "routed" /\ BothCoordinates) => strategy = "nearby"

\* Both coordinates came with a category intent and a source name, and nearby was selected.
C5_Witness ==
    /\ qpc = "routed"
    /\ BothCoordinates
    /\ strategy = "nearby"
    /\ Len(extraction.Intent) > 0
    /\ extraction.Intent[1].Type = L_category
    /\ extraction.SourceNames # <<>>

\* Equality of two texts up to the case of their letters.
SameFold(a, b) ==
    /\ Len(a) = Len(b)
    /\ \A i \in 1..Len(a) :
          \/ a[i] = b[i]
          \/ \E k \in 1..Len(UpperChars) : {a[i], b[i]} = {UpperChars[k], LowerChars[k]}

LabelIn(label, names) == \E n \in names : SameFold(label, n)

\* The earliest of the intents with the highest confidence.
TopIntent(intents) ==
    CHOOSE i \in 1..Len(intents) :
        /\ \A j \in 1..Len(intents) : intents[j].Confidence <= intents[i].Confidence
        /\ \A j \in 1..(i - 1) : intents[j].Confidence < intents[i].Confidence

TopLabel == extraction.Intent[TopIntent(extraction.Intent)].Type

\* C6: when lat and lon are not both present, the label of the earliest intent with the
\* highest confidence decides, whatever its case: category|topic give category,
\* source|publisher give source, score|relevance give score, nearby|location|local give
\* nearby, search|query give search.
C6_TopIntentLabelDecides ==
    (qpc = "routed" /\ ~BothCoordinates /\ Len(extraction.Intent) > 0) =>
        /\ LabelIn(TopLabel, {L_category, L_topic}) => strategy = "category"
        /\ LabelIn(TopLabel, {L_source, L_publisher}) => strategy = "source"
        /\ LabelIn(TopLabel, {L_score, L_relevance}) => strategy = "score"
        /\ LabelIn(TopLabel, {L_nearby, L_location, L_local}) => strategy = "nearby"
        /\ LabelIn(TopLabel, {L_search, L_query}) => strategy = "search"

\* Two intents share the highest confidence, the first is spelled PUBLISHER, the second
\* names another strategy, and source was selected.
C6_Witness ==
    /\ qpc = "routed"
    /\ ~BothCoordinates
    /\ Len(extraction.Intent) = 2
    /\ extraction.Intent[1].Confidence = extraction.Intent[2].Confidence
    /\ SameFold(extraction.Intent[1].Type, L_publisher)
    /\ extraction.Intent[1].Type # L_publisher
    /\ SameFold(extraction.Intent[2].Type, L_score)
    /\ strategy = "source"

AllLabels ==
    {L_category, L_topic, L_source, L_publisher, L_score, L_relevance, L_nearby, L_location,
     L_local, L_search, L_query}

EntityListsOf(x) ==
    {x.People, x.Organizations, x.Locations, x.Concepts, x.Categories, x.SourceNames}

\* One of the lists holds an entry that contains one of the names, whatever its case.
Recognised(x, names) ==
    \E list \in EntityListsOf(x) : \E i \in 1..Len(list) : \E j \in 1..Len(names) :
        \E from \in 1..Len(list[i]) : \E to \in from..Len(list[i]) :
            SameFold(SubSeq(list[i], from, to), names[j])

\* C7: when lat and lon are not both present and the label of the deciding intent is none
\* of the synonyms, the strategy is source if the combined lists hold a recognised source
\* name, else category if they hold a recognised category name, else search.
C7_EntityFallback ==
    (qpc = "routed" /\ ~BothCoordinates /\ Len(extraction.Intent) > 0
        /\ ~LabelIn(TopLabel, AllLabels)) =>
        strategy = IF Recognised(extraction, KnownSources) THEN "source"
                   ELSE IF Recognised(extraction, KnownCategories) THEN "category"
                   ELSE "search"

\* The deciding label is no synonym, the lists hold a source name and a category name,
\* and source was selected.
C7_Witness ==
    /\ qpc = "routed"
    /\ ~BothCoordinates
    /\ Len(extraction.Intent) > 0
    /\ ~LabelIn(TopLabel, AllLabels)
    /\ Recognised(extraction, KnownSources)
    /\ Recognised(extraction, KnownCategories)
    /\ strategy = "source"

\* C8: the limit handed to the article store lies in 1..50, whichever endpoint the
\* request came in by.
C8_StoreLimitInRange ==
    storeCall # Nil => (storeCall[1].limit >= 1 /\ storeCall[1].limit <= MaxLimit)

IdsOf(arts) == [i \in 1..Len(arts) |-> arts[i].ID]

\* C9: the articles of a response are the first `limit` of the strategy's ranked order
\* over all the stored articles that pass the strategy's filter.
C9_LimitAfterFilterAndRank ==
    (qpc = "done" /\ httpStatus = 200) =>
        \E all \in RetrievalResults(strategy, extraction,
                                    [req EXCEPT !.Limit = Len(ArticleIds)], store, ArticleIds) :
            \E sorted \in rankArticles(all, strategy) :
                IdsOf(response) = IdsOf(Truncate(sorted, req.Limit))

ResultOf(id) == CHOOSE r \in delivered : r.ID = id

Answered == qpc = "done" /\ httpStatus = 200 /\ ranked # Nil

\* C11 as the claim has it: a query whose Summarize calls fail for some of its articles
\* still answers 200 with all the retrieved articles, an article has no summary exactly
\* when its Summarize call failed, and every other article carries its summary.
C11_ExactlyFailedLackSummary ==
    /\ (qpc = "done" /\ delivered # {}) => httpStatus = 200
    /\ Answered =>
          /\ Len(response) = Len(ranked[1])
          /\ {response[i].ID : i \in 1..Len(response)} = {r.ID : r \in delivered}
          /\ \A i \in 1..Len(response) :
                /\ response[i].LLMSummary = Nil <=> ResultOf(response[i].ID).err
                /\ ~ResultOf(response[i].ID).err =>
                      response[i].LLMSummary = Ptr(ResultOf(response[i].ID).summary)

\* C11 as the code has it: the query still answers 200 with all the retrieved articles; an
\* article has no summary exactly when its Summarize call failed or returned the empty
\* text, and every other article carries the text its own call returned.
C11_FailedOrEmptyLackSummary ==
    /\ (qpc = "done" /\ delivered # {}) => httpStatus = 200
    /\ Answered =>
          /\ Len(response) = Len(ranked[1])
          /\ {response[i].ID : i \in 1..Len(response)} = {r.ID : r \in delivered}
          /\ \A i \in 1..Len(response) :
                LET res == ResultOf(response[i].ID)
                IN  /\ response[i].LLMSummary = Nil <=> (res.err \/ res.summary = <<>>)
                    /\ response[i].LLMSummary # Nil =>
                          /\ response[i].LLMSummary = Ptr(res.summary)
                          /\ res.summary = SummaryFor(response[i])

\* Three articles are answered: the call of one failed, the call of another returned the
\* empty text, and the third carries its summary.
C11_Witness ==
    /\ Answered
    /\ Len(response) = 3
    /\ \E i, j, k \in 1..3 :
          /\ ResultOf(response[i].ID).err
          /\ ~ResultOf(response[j].ID).err /\ ResultOf(response[j].ID).summary = <<>>
          /\ response[k].LLMSummary = Ptr(SummaryFor(response[k]))
          /\ response[i].LLMSummary = Nil /\ response[j].LLMSummary = Nil

\* C12: when nearby is selected for a request that does not carry both lat and lon, Query
\* fails and makes no call to the article store, with coordinates of its own or otherwise.
C12_NearbyWithoutCoordinatesFails ==
    (strategy = "nearby" /\ ~BothCoordinates /\ qpc \notin {"extracted", "routed"}) =>
        /\ storeCall = Nil
        /\ qpc = "done"
        /\ httpStatus = 500

\* The classifier has been called for the request.
ClassifierCalled ==
    \/ qpc \in {"extracted", "routed", "retrieved", "enriching", "rank"}
    \/ qpc = "done" /\ httpStatus # 400

\* C13: the classifier and the article store are called only for a request with a query
\* text, lat in [-90, 90], lon in [-180, 180], radius_km in [0.1, 200] and limit in [1, 50],
\* on the GET and on the POST form of the query call.
C13_InvalidRequestRejected ==
    (via \in {"GET", "POST"} /\ (ClassifierCalled \/ storeCall # Nil)) =>
        /\ req.Query # <<>>
        /\ req.Lat # Nil => (req.Lat[1] >= 0 - 90000 /\ req.Lat[1] <= 90000)
        /\ req.Lon # Nil => (req.Lon[1] >= 0 - 180000 /\ req.Lon[1] <= 180000)
        /\ req.Radius # Nil => (req.Radius[1] >= 100 /\ req.Radius[1] <= 200000)
        /\ req.Limit >= 1 /\ req.Limit <= MaxLimit

-----------------------------------------------------------------------------
(* Claims about the trending scorer *)

\* The tile's score set stands written by a computation and no computation of the tile
\* is under way.
TileWritten(g) ==
    /\ zsets[TrendingKey(g, WriteLimit)] # {}
    /\ \A w \in Writers : ~Computing(w, g)

\* C14: after a tile's score set has been written by a computation, GetTrendingScores
\* for that tile with a limit n in 1..50 returns the min(n, size of the set)
\* highest-scored entries of that set, in descending score order.
C14_ReadReturnsTopOfWrittenSet ==
    \A g \in Tiles, n \in ReadLimits :
        TileWritten(g) =>
            LET written == zsets[TrendingKey(g, WriteLimit)]
                got == GetTrendingScores(g, n)
                members == {[Member |-> got[i].ArticleID, Score |-> got[i].Score] :
                               i \in 1..Len(got)}
            IN  /\ Len(got) = Min(n, Cardinality(written))
                /\ Cardinality(members) = Len(got)
                /\ members \subseteq written
                /\ \A x \in members, y \in written \ members : y.Score <= x.Score
                /\ \A i, j \in 1..Len(got) : i < j => got[i].Score >= got[j].Score

\* C15: a reader of a tile's score set that runs while the tile is being computed finds
\* the complete previous set or the complete new one, never an empty or partly written
\* set; and when the context is cancelled in mid-computation, the tile the loop was
\* computing is left with the complete previous set or the complete new one.
C15_TileFullyOldOrFullyNew ==
    /\ \A w \in Writers, g \in Tiles :
          Computing(w, g) =>
              zsets[TrendingKey(g, WriteLimit)] \in {writer[w].before, writer[w].target}
    /\ (ctxDone /\ writer["loop"].pc = "tiles" /\ writer["loop"].tile # <<>>) =>
          zsets[TrendingKey(writer["loop"].tile, WriteLimit)]
              \in {writer["loop"].before, writer["loop"].target}

\* Writer w has returned from computeTileScore for tile g and has not begun another tile:
\* `events` are the events of the tile it found in the 24-hour window, `target` the
\* articles of these events with their newly computed scores, `after` the tile's score
\* set at the return.
Finished(w, g) ==
    /\ writer[w].tile = g
    /\ writer[w].pc = IF w = "loop" THEN "tiles" ELSE "idle"

\* C16: after a computation of a tile has finished (in the background cycle or in
\* ForceRecompute, no other writer running), the tile's score set holds exactly the
\* articles with an event in the tile within the current 24-hour window, each with its
\* newly computed score, and no member written by an earlier computation.
C16_TileSetFullyReplaced ==
    \A w \in Writers, g \in Tiles :
        Finished(w, g) =>
            /\ writer[w].after = writer[w].target
            /\ {x.Member : x \in writer[w].after} = {e.ArticleID : e \in writer[w].events}

\* C17: every background cycle that completes, whatever the number of events it found,
\* overwrites the global trending metadata with its timestamp, its event count and its
\* tile count.
C17_CompletedCycleWritesMetadata ==
    [][(loop = "cycle" /\ loop' = "select") =>
          meta' = Ptr([LastComputedAt |-> now,
                       EventCount |-> Cardinality(writer["loop"].fetched),
                       TileCount |-> writer["loop"].tileCount])]_vars

\* C18: if storing a tile fails during a cycle, the cycle still computes every other tile
\* and returns no error, and the failed tile is not counted in the cycle's tile count.
C18_FailedTileSkippedNotCounted ==
    [][(loop = "cycle" /\ loop' = "select" /\ writer["loop"].pc = "tiles") =>
          /\ lastCycle' # Nil
          /\ {p[1] : p \in writer["loop"].wrote} = DOMAIN writer["loop"].groups
          /\ writer["loop"].tileCount =
                Cardinality(DOMAIN writer["loop"].groups \ writer["loop"].failed)]_vars

\* The background cycle completes in this step, and the cycle before it fetched the same
\* events, with no event recorded since.
SecondCycleOverSameEvents ==
    /\ loop = "cycle"
    /\ loop' = "select"
    /\ lastCycle # Nil
    /\ lastCycle' # Nil
    /\ lastCycle[1].events = lastCycle'[1].events

\* The score sets a cycle wrote, by tile.
ScoreSets(wrote) == {<<p[1], p[2]>> : p \in wrote}

\* C19: running the cycle twice over the same set of events, with no new event between
\* the two runs, writes the same score set for every tile both times.
C19_TwoCyclesWriteSameScores ==
    [][SecondCycleOverSameEvents =>
          ScoreSets(lastCycle'[1].wrote) = ScoreSets(lastCycle[1].wrote)]_vars

\* C19 as the code has it: the two runs write the same tiles and, for every tile, the same
\* articles; an article's score is the same when both runs score the tile at the same
\* reading of the clock, and it is never higher in the later run.
C19_TwoCyclesSameArticlesDecayedScores ==
    [][SecondCycleOverSameEvents =>
          /\ {p[1] : p \in lastCycle'[1].wrote} = {q[1] : q \in lastCycle[1].wrote}
          /\ \A p \in lastCycle'[1].wrote, q \in lastCycle[1].wrote :
                p[1] = q[1] =>
                   /\ {x.Member : x \in p[2]} = {y.Member : y \in q[2]}
                   /\ p[3] >= q[3]
                   /\ p[3] = q[3] => p[2] = q[2]
                   /\ \A x \in p[2], y \in q[2] : x.Member = y.Member => x.Score <= y.Score]_vars

\* A second cycle over the same events has computed its tiles a day after the first and
\* is about to return: the same article stands with a lower score.
C19_Witness ==
    /\ writer["loop"].pc = "tiles"
    /\ writer["loop"].todo = {}
    /\ lastCycle # Nil
    /\ lastCycle[1].events = {e.ID : e \in writer["loop"].fetched}
    /\ \E p \in writer["loop"].wrote, q \in lastCycle[1].wrote :
          /\ p[1] = q[1]
          /\ p[3] > q[3]
          /\ \E x \in p[2], y \in q[2] : x.Member = y.Member /\ x.Score < y.Score

\* C20: at most one execution of computeAllTiles started by the background loop is in
\* progress at any time; a tick that arrives while a cycle is running waits in the
\* ticker's channel and starts no cycle until that cycle has returned.
C20_CyclesDoNotOverlap ==
    /\ running <= 1
    /\ running = 1 <=> loop = "cycle"
    /\ running = 1 <=> writer["loop"].pc # "idle"

\* A tick has arrived while the cycle is still between the ZAdd calls of a tile.
C20_Witness ==
    /\ running = 1
    /\ tick
    /\ writer["loop"].pc = "zadd"

\* C21: Stop is idempotent: after Start, a call of Stop that follows another completes
\* normally and changes nothing.
C21_StopIsIdempotent ==
    [][(ScorerStop /\ doneClosed /\ loop # "off") =>
          /\ loop' # "panic"
          /\ UNCHANGED <<loop, running, writer, doneClosed, tickerOn>>]_vars

\* C22: when Stop has returned, no computation cycle of the background loop is still
\* running and none starts afterwards.
C22_StopDrainsTheCycle ==
    /\ doneClosed => (running = 0 /\ loop # "cycle")
    /\ doneClosed => writer["loop"].pc = "idle"

-----------------------------------------------------------------------------
(* Claims about the rate limiter *)

\* C23: no in-process mutable map or counter is read or written by two concurrently
\* running request handlers without synchronisation: the rate limiter's map of clients
\* and the token counts are never accessed by two goroutines at the same time.
C23_NoUnsynchronisedSharedAccess ==
    /\ ~DataRace
    /\ \A h \in Handlers : handler[h].pc # "fatal"

-----------------------------------------------------------------------------
(* Claims about retrieval and ranking *)

\* The request has been answered with the articles of strategy strat.
AnsweredBy(strat) == qpc = "done" /\ httpStatus = 200 /\ strategy = strat

\* C24: for every valid (lat, lon), radius and limit, the distances of the articles a
\* nearby query returns are non-decreasing along the result list.
C24_NearbyDistancesNonDecreasing ==
    AnsweredBy("nearby") =>
        \A i, j \in 1..Len(response) :
            i < j => /\ response[i].DistanceMeters # Nil
                     /\ response[j].DistanceMeters # Nil
                     /\ response[i].DistanceMeters[1] <= response[j].DistanceMeters[1]

\* A nearby query has returned two articles at different distances.
C24_Witness ==
    /\ AnsweredBy("nearby")
    /\ Len(response) >= 2
    /\ response[1].DistanceMeters[1] < response[2].DistanceMeters[1]

-----------------------------------------------------------------------------
(* Claims about the repository reads *)

\* A score-strategy read of the repository has returned.
ScoreRead == qpc = "retrieved" /\ strategy = "score"

\* C25: after any sequence of article creations and replacements, a score-strategy
\* retrieval with minimum X returns no article whose relevance score is below X.
C25_ScoreRetrievalRespectsMinimum ==
    ScoreRead =>
        \A i \in 1..Len(articles) : Fine(articles[i].RelevanceScore) >= MinScoreOf(req)

\* client.go:336: the threshold keywords.
ThresholdKeywords == {<<"a", "b", "o", "v", "e">>, <<"t", "h", "r", "e", "s", "h", "o", "l", "d">>}

\* The positions of the text s at which an occurrence of a threshold keyword ends.
KeywordEnds(s) ==
    {e \in 1..Len(s) : \E k \in ThresholdKeywords : e >= Len(k) /\ SubSeq(s, e - Len(k) + 1, e) = k}

\* The first number of s after its first threshold keyword, Nil when there is none.
NumberAfterKeyword(s) ==
    IF KeywordEnds(s) = {} THEN Nil
    ELSE FirstNumber(SubSeq(s, First(KeywordEnds(s)) + 1, Len(s)))

\* C26: in the score strategy the minimum is the decimal number that follows a threshold
\* keyword when there is one and it lies in [0,1], and 0.8 otherwise; numbers elsewhere in
\* the query do not affect it.
C26_MinimumIsTheNumberAfterTheKeyword ==
    ScoreRead =>
        LET n == NumberAfterKeyword(ToLower(req.Query))
            v == IF n = Nil THEN Nil ELSE ParseFloatFine(n[1])
        IN  MinScoreOf(req) = IF v # Nil /\ v[1] >= 0 /\ v[1] <= Fine(1000)
                                THEN v[1] ELSE Fine(DefaultMinScore)

-----------------------------------------------------------------------------
(* Claims about the ranking *)

\* The ranking key of `a` is not below that of `b` in the order of strategy strat.
KeyNotBelow(strat, a, b) ==
    CASE strat \in {"category", "source"} -> a.PublicationDate >= b.PublicationDate
      [] strat = "score" -> a.RelevanceScore >= b.RelevanceScore
      [] strat = "search" ->
            IF a.SearchScore # Nil /\ b.SearchScore # Nil
              THEN a.SearchScore[1] >= b.SearchScore[1]
              ELSE a.RelevanceScore >= b.RelevanceScore
      [] OTHER -> TRUE

\* C27: the article list a query returns is sorted by its strategy's key: non-increasing
\* publication timestamp for category and source, non-increasing relevance score for
\* score, non-increasing search score for search (relevance score when a search score is
\* missing on either side).
C27_ResponseSortedByStrategyKey ==
    (qpc = "done" /\ httpStatus = 200) =>
        \A i, j \in 1..Len(response) :
            i < j => KeyNotBelow(strategy, response[i], response[j])

\* A category query has returned two articles published on different days.
C27_Witness ==
    /\ AnsweredBy("category")
    /\ Len(response) >= 2
    /\ response[1].PublicationDate > response[2].PublicationDate

\* The entries of a list that lack a distance, in the order of the list.
WithoutDistance(arts) == SelectSeq(arts, LAMBDA a : a.DistanceMeters = Nil)

C29_SameQuerySameSequence ==
    (qpc = "done" /\ httpStatus = 200) =>
        \A order \in Orders :
            \A found \in RetrievalResults(strategy, extraction, req, store, order) :
                \A sorted \in rankArticles(found, strategy) :
                    IdsOf(Truncate(sorted, req.Limit)) = IdsOf(response)

\* A source-strategy read of the repository has returned.
SourceRead == qpc = "retrieved" /\ strategy = "source"

\* C30: for every source name the classifier extracts from a query, a query resolved to
\* the source strategy retrieves the articles of that source and not those of another
\* source.
C30_SourceQueryReturnsThatSource ==
    SourceRead =>
        \A n \in 1..Len(extraction.SourceNames) :
            /\ \A i \in 1..Len(articles) :
                  ToLower(articles[i].SourceName) = ToLower(extraction.SourceNames[n])
            /\ (\E id \in IdSet : /\ store.articles[id] # Nil
                                  /\ ToLower(ArticleOf(store, id).SourceName)
                                        = ToLower(extraction.SourceNames[n]))
                  => articles # <<>>

-----------------------------------------------------------------------------
(* Claims about the error responses *)

\* C31: for every failure that is not a validation error the message returned to the
\* caller is a generic internal-error message that contains no text of the underlying
\* error.
C31_InternalErrorHidesTheCause ==
    httpStatus = 500 =>
        /\ ~Contains(httpBody, ExtractError)
        /\ ~Contains(httpBody, NearbyError)

-----------------------------------------------------------------------------
(* Claims about ForceRecompute, the shutdown and the scores *)

\* The key of the score set the computation of ForceRecompute writes.
ForceKey == TrendingKey(writer["force"].tile, WriteLimit)

\* C32: ForceRecompute(lat, lon) writes only the score set of the single tile derived from
\* (lat, lon): every step of its computation leaves the score sets of all other tiles
\* and the global trending metadata unchanged.
C32_ForceRecomputeWritesOneTile ==
    [][(writer["force"].pc # "idle" /\ writer'["force"] # writer["force"]) =>
          /\ meta' = meta
          /\ \A k \in DOMAIN zsets :
                k # ForceKey => (zsets'[k] = zsets[k] /\ zttl'[k] = zttl[k])]_vars

\* ForceRecompute has written the score set of its tile while another tile has a score
\* set and the metadata exists.
C32_Witness ==
    /\ writer["force"].pc = "expire"
    /\ zsets[ForceKey] # {}
    /\ \E k \in DOMAIN zsets : k # ForceKey /\ zsets[k] # {}
    /\ meta # Nil

-----------------------------------------------------------------------------
(* Claims about the paths of GetOrSet *)

\* Caller c acquired the lock and its call has returned.
ReturnedWithLock(c) == ranFn[c] /\ pc[c] = "done"

\* The producer of c returned an error: c is past fn() without a value.
ProducerFailed(c) == ranFn[c] /\ pc[c] \in {"del", "done"} /\ value[c] = NoVal

\* A caller whose producer failed returns the producer's error.
ProducerErrorReturned == \A c \in Procs : ProducerFailed(c) => ret[c] = ErrGenerate

\* A step of a caller whose producer failed does not write the cache key.
ProducerErrorWritesNothing ==
    \A c \in Procs : (ProducerFailed(c) /\ pc'[c] # pc[c]) => cacheVal' = cacheVal

\* C33 as the claim has it: a caller that acquired the lock has returned only with the
\* lock key deleted, on every path; when the producer returned an error the caller
\* leaves the cache key as it was and returns an error.
C33_LockDeletedOnEveryPath ==
    /\ [](\A c \in Procs : ReturnedWithLock(c) => lock # c)
    /\ []ProducerErrorReturned
    /\ [][ProducerErrorWritesNothing]_vars

\* C33 as the code has it: a caller that acquired the lock returns, on every path, by
\* the deferred Del of the lock key, which deletes the key unless the Del itself fails
\* (its error is dropped and the key then stays until its TTL runs out); when the producer
\* returned an error the caller leaves the cache key as it was and returns an error.
C33_LockDelIssuedOnEveryPath ==
    /\ [][\A c \in Procs :
            (ranFn[c] /\ pc[c] # "done" /\ pc'[c] = "done") =>
                (pc[c] = "del" /\ (lock' = 0 \/ (lock' = lock /\ held' = held)))]_vars
    /\ []ProducerErrorReturned
    /\ [][ProducerErrorWritesNothing]_vars

\* A caller whose producer failed has returned and the lock key is gone.
C33_Witness ==
    \E c \in Procs : /\ ReturnedWithLock(c)
                     /\ ret[c] = ErrGenerate
                     /\ lock = 0
                     /\ cacheVal = NoVal

\* C34: a call whose first read finds the key returns the stored bytes without executing
\* the producer, without creating the lock key and without writing the cache.
C34_HitReturnsWithoutSideEffects ==
    [][\A c \in Procs :
          (pc[c] = "idle" /\ pc'[c] = "done") =>
              /\ cacheVal # NoVal
              /\ ret'[c] = cacheVal
              /\ cacheVal' = cacheVal
              /\ lock' = lock /\ held' = held
              /\ fnRuns' = fnRuns /\ ranFn' = ranFn]_vars

\* A caller has returned the stored value from its first read while the key is present
\* and the producer has run once, for another caller.
C34_Witness ==
    \E c \in Procs : /\ pc[c] = "done"
                     /\ ~ranFn[c] /\ ~lockFailed[c]
                     /\ ret[c] \in Values
                     /\ ret[c] = cacheVal
                     /\ fnRuns = 1

\* The step with which enrichArticles returns.
EnrichReturns == qpc = "enriching" /\ qpc' = "rank"

\* C35: enrichArticles returns the articles in the order it received them, position i
\* carries the summary computed from the article at position i whatever the order in which
\* the Summarize calls completed, and it returns only after every Summarize call it
\* started has delivered its result.
C35_EnrichKeepsOrderAndIndex ==
    [][EnrichReturns =>
          /\ pending = {}
          /\ Cardinality(delivered) = Len(articles)
          /\ Len(articles') = Len(articles)
          /\ \A i \in 1..Len(articles) :
                /\ articles'[i] = [articles[i] EXCEPT !.LLMSummary = articles'[i].LLMSummary]
                /\ \E r \in delivered :
                      /\ r.index = i
                      /\ r.ID = articles[i].ID
                      /\ articles'[i].LLMSummary =
                            IF r.err \/ r.summary = <<>>
                            THEN articles[i].LLMSummary
                            ELSE Ptr(SummaryFor(articles[i]))]_vars

\* enrichArticles has returned three articles in the order of the retrieval, each with
\* the summary of its own title, and the three summaries differ.
C35_Witness ==
    /\ qpc = "rank"
    /\ Len(articles) = 3
    /\ pending = {}
    /\ \A i \in 1..3 : articles[i].LLMSummary = Ptr(SummaryFor(articles[i]))
    /\ \A i, j \in 1..3 : i # j => articles[i].LLMSummary # articles[j].LLMSummary

\* The weight the claim gives to a kind of event, in thousandths.
ClaimedEventWeight(kind) ==
    CASE kind = "click" -> 2000
      [] kind = "view" -> 1000
      [] OTHER -> 1000

\* eventWeight x timeDecay x geoDecay of a recorded event at the time t, in thousandths.
ClaimedEventScore(e, t) ==
    LET place == PoolArticle(e.ArticleID)
        timeDecay == ExpDecay(t - e.OccurredAt)
        geoDecay == (1000 * 10000) \div
                       (10000 + tsHaversineDistance(e.UserLat[1], e.UserLon[1],
                                                    place.Latitude[1], place.Longitude[1]))
    IN  (((ClaimedEventWeight(e.Event) * timeDecay) \div 1000) * geoDecay) \div 1000

\* The recorded events of an article that a computation at the time t groups into the
\* tile g.
GroupedInto(g, id, t) ==
    {e \in userEvents : /\ e.ArticleID = id
                        /\ e.OccurredAt >= t - WindowMinutes
                        /\ HasCoordinates(PoolArticle(id))
                        /\ e.UserLat # Nil /\ e.UserLon # Nil
                        /\ GenerateGeohash(e.UserLat[1], e.UserLon[1], GeohashPrecision) = g}

RECURSIVE ClaimedSum(_, _)
ClaimedSum(events, t) ==
    IF events = {} THEN 0
    ELSE LET e == CHOOSE x \in events : TRUE
         IN  ClaimedEventScore(e, t) + ClaimedSum(events \ {e}, t)

\* The rows of the join without the test for the user's coordinates.
AllEventRows ==
    {[ID |-> e.ID, ArticleID |-> e.ArticleID, Event |-> e.Event, OccurredAt |-> e.OccurredAt,
      UserLat |-> e.UserLat, UserLon |-> e.UserLon,
      Latitude |-> PoolArticle(e.ArticleID).Latitude,
      Longitude |-> PoolArticle(e.ArticleID).Longitude] : e \in userEvents}

\* An event without user coordinates is in the group of no tile, and an event with them
\* is in the group of one tile, that of its coordinates.
EachEventInOneTile ==
    LET groups == groupEventsByTile(AllEventRows)
    IN  \A e \in AllEventRows :
           LET tiles == {g \in DOMAIN groups : e \in groups[g]}
           IN  IF e.UserLat = Nil \/ e.UserLon = Nil
                 THEN tiles = {}
                 ELSE tiles = {TileOf(e)}

\* A member that a step puts into a sorted set, or whose score the step changes, is put
\* by a writer into the key of its tile with the claimed sum as its score.
StoredScoreIsTheSum ==
    \A k \in TrendKeys :
       \A z \in zsets'[k] \ zsets[k] :
          \E w \in Writers :
             /\ writer[w].pc = "zadd"
             /\ k = TrendingKey(writer[w].tile, WriteLimit)
             /\ z.Score = ClaimedSum(GroupedInto(writer[w].tile, z.Member, writer[w].at),
                                     writer[w].at)

\* C36: the score a computation stores for an article in a tile is the sum, over the
\* events of the article grouped into the tile, of eventWeight x timeDecay x geoDecay with
\* the weight 2 for click, 1 for view and 1 for any other kind; an event without user
\* coordinates contributes to no tile and an event with them to exactly one.
C36_StoredScoreIsSumOfEventScores ==
    /\ []EachEventInOneTile
    /\ [][StoredScoreIsTheSum]_vars

\* The set of the tile of the first place holds the first article with the sum of the
\* scores of its click, its view and its share, while an event without user coordinates
\* and an event in the other tile are recorded too.
C36_Witness ==
    LET g == GenerateGeohash(SpotA.lat, SpotA.lon, GeohashPrecision)
    IN  /\ {e.ID : e \in userEvents} = {1, 2, 3, 4, 5}
        /\ \E z \in zsets[TrendingKey(g, WriteLimit)] :
              /\ z.Member = "a1"
              /\ z.Score = ClaimedSum(GroupedInto(g, "a1", ScoringTime), ScoringTime)
              /\ Cardinality(GroupedInto(g, "a1", ScoringTime)) = 3
              /\ z.Score > 0


-----------------------------------------------------------------------------
(* Claims about the category retrieval *)

\* A category retrieval of the repository has returned.
CategoryRead == qpc = "retrieved" /\ strategy = "category" /\ extraction = NoExtraction

\* The stored articles whose current category set has a label that contains the name,
\* letter case aside.
CurrentlyInCategory(name) ==
    {id \in IdSet : store.articles[id] # Nil /\ CategoryMatches(ArticleOf(store, id), name)}

\* C37: after any sequence of CreateArticle calls, replacements with another category set
\* included, a category retrieval returns only articles whose current category set has a
\* label containing the name case-insensitively, and the Redis-backed and the in-memory
\* repository return the same articles: with a limit that cuts nothing off, all of them.
C37_CategoryRetrievalFollowsCurrentCategories ==
    CategoryRead =>
        /\ \A i \in 1..Len(articles) : articles[i].ID \in CurrentlyInCategory(req.Query)
        /\ req.Limit >= Len(ArticleIds) =>
              {articles[i].ID : i \in 1..Len(articles)} = CurrentlyInCategory(req.Query)


-----------------------------------------------------------------------------
(* Claims about the failures of a query *)

\* Query has returned the error of a failed Extract.
ClassifierFailed == httpStatus = 500 /\ Contains(httpBody, ExtractError)

\* Query has returned the error of a failed retrieval.
RetrievalFailed == httpStatus = 500 /\ ~Contains(httpBody, ExtractError)

\* The store is called from the routed request alone, which has not called it before, and
\* the commands the repository sends to Redis belong to that call.
StoreCalledOnce ==
    /\ storeCall' # storeCall => (storeCall = Nil /\ qpc = "routed" /\ qpc' = "retrieved")
    /\ redisOps' # redisOps => (storeCall = Nil /\ storeCall' # Nil)

\* After a failure nothing is called again.
NoRetry ==
    httpStatus = 500 =>
        /\ storeCall' = storeCall /\ redisOps' = redisOps
        /\ summarizeCalls' = summarizeCalls
        /\ httpStatus' = 500

-----------------------------------------------------------------------------
(* Claims about the shutdown of the background loop *)

\* The goroutine of the loop has been started and has not returned.
LoopAlive == loop \in {"select", "cycle"}

\* The goroutine of the loop has returned, or the process has ended.
LoopTerminated == loop \in {"exited", "panic"}

\* Once Stop has been called or the context cancelled, the goroutine terminates.
EventuallyTerminates == ((doneClosed \/ ctxDone) /\ LoopAlive) ~> LoopTerminated

\* A call of Stop finds nothing to wait for: it can always take its step.
StopNeverBlocks == Alive => ENABLED ScorerStop

\* C39 as the claim has it: after Start, once Stop has been called or the context has
\* been cancelled, the goroutine eventually terminates and at most one further cycle
\* begins after that moment; Stop never blocks, whether or not the goroutine has exited.
C39_TerminatesAfterAtMostOneCycle ==
    /\ EventuallyTerminates
    /\ [](lateCycles.stop <= 1 /\ lateCycles.cancel <= 1)
    /\ []StopNeverBlocks

\* C39 as the code has it: the goroutine eventually terminates after Stop and after the
\* cancellation; at most one further cycle begins after Stop, which stops the ticker;
\* Stop never blocks, whether or not the goroutine has exited.
C39_TerminatesAtMostOneCycleAfterStop ==
    /\ EventuallyTerminates
    /\ [](lateCycles.stop <= 1)
    /\ []StopNeverBlocks

\* The loop took the tick that waited in the channel after Stop had closed `done`, ran
\* that one cycle and returned.
C39_Witness ==
    /\ doneClosed
    /\ ~ctxDone
    /\ lateCycles.stop = 1
    /\ loop = "exited"


-----------------------------------------------------------------------------
(* Claims about the rate limiter with one call at a time *)

\* The token count of the address, once it has a clientLimit.
TokensOf(ip) == clients[ip][1].tokens

\* The token count of every client is within [0, burstSize].
TokensInRange ==
    \A ip \in ClientIPs : clients[ip] # Nil => (TokensOf(ip) >= 0 /\ TokensOf(ip) <= BurstSize)

\* A new client gets a full bucket, and a count grows in a refill alone, after time has
\* passed since the last refill.
BucketFilledByRefillOnly ==
    \A ip \in ClientIPs :
        /\ (clients[ip] = Nil /\ clients'[ip] # Nil) => clients'[ip][1].tokens = BurstSize
        /\ (clients[ip] # Nil /\ clients'[ip] # Nil /\ clients'[ip][1].tokens > TokensOf(ip)) =>
              \E h \in Handlers : /\ handler[h].pc = "refill"
                                  /\ handler[h].ip = ip
                                  /\ handler[h].now > clients[ip][1].lastRefill

\* The test after the refill: with a token the request goes on to take one, without a
\* token it is answered 429, is not passed on and leaves the counts alone.
AllowedIffTokenAvailable ==
    \A h \in Handlers :
        (handler[h].pc = "check" /\ handler'[h].pc # "check") =>
            IF TokensOf(handler[h].ip) >= 1
              THEN handler'[h].pc = "take" /\ clients' = clients
              ELSE /\ handler'[h].pc = "done"
                   /\ handler'[h].out = "429"
                   /\ clients' = clients

\* An allowed request consumes one token of its client and is passed to the next handler.
AllowedConsumesOne ==
    \A h \in Handlers :
        (handler[h].pc = "take" /\ handler'[h].pc # "take") =>
            /\ handler'[h].pc = "done"
            /\ handler'[h].out = "next"
            /\ clients'[handler[h].ip][1].tokens = TokensOf(handler[h].ip) - 1
            /\ \A ip \in ClientIPs \ {handler[h].ip} : clients'[ip] = clients[ip]

\* C40: with the Allow calls made one at a time, the token count of every client stays
\* within [0, burstSize]; Allow returns true exactly when a token is available after the
\* refill and then consumes exactly one, so a new client, whose bucket starts full and
\* grows in a refill alone, is allowed burstSize requests before the first refill; a
\* rejected request is not passed to the next handler.
C40_TokenBucketSequential ==
    /\ []TokensInRange
    /\ [][BucketFilledByRefillOnly /\ AllowedIffTokenAvailable /\ AllowedConsumesOne]_vars

\* Within the first second a client has used the burstSize tokens it began with, no
\* refill has happened, and its next request has been answered 429.
C40_Witness ==
    \E h \in Handlers :
        /\ handler[h].pc = "done"
        /\ handler[h].out = "429"
        /\ rlNow = 0
        /\ clients[handler[h].ip] # Nil
        /\ TokensOf(handler[h].ip) = 0
        /\ clients[handler[h].ip][1].lastRefill = 0

====
